---- MODULE Spec2Model ----
(***************************************************************************)
(* A model of the MiniZinc flattening environment (EnvI) and of the parts  *)
(* of the flattening pipeline that act on it: the flat and output models,  *)
(* fail(), flatAddItem(), the warning buffer, the CSE map, domain          *)
(* tightening in bind(), and path-based unification in new_vardecl().      *)
(* Smaller components model oldflatzinc(), flatten_par, flatten_let, the   *)
(* call stack, eval_par, eval_comp, tuple membership, the bounds visitors, *)
(* JSONParser::coerceArray, add_ctx_ann and Env::dumpWarnings.             *)
(***************************************************************************)
EXTENDS Integers, Sequences, FiniteSets, TLC

VARIABLES
  flat,          \* EnvI::_flat: the flat model, a sequence of items
  output,        \* EnvI::output: the output model, a sequence of items
  failed,        \* EnvI::_failed
  warnings,      \* EnvI::warnings
  pc,            \* position of the pipeline (flatten / oldflatzinc)
  exc,           \* exception that left flatten() ("none" when none did)
  pos,           \* number of source items visited by FlattenModelVisitor
  hadSolveItem,  \* flatten()'s local hadSolveItem
  startItem,     \* flatten()'s local startItem (1-based here)
  endItem,       \* flatten()'s local endItem
  agendaIdx,     \* index of the agenda entry / oldflatzinc item being processed
  msize,         \* oldflatzinc()'s local msize
  hist,          \* history of the run, read only by the properties
  agenda,        \* flatten()'s local agenda of one post-pass iteration (1-based here)
  modifiedVarDecls,       \* EnvI::modifiedVarDecls
  convertToRangeDomain,   \* flatten()'s local convertToRangeDomain
  doConvertToRangeDomain, \* flatten()'s local doConvertToRangeDomain
  onAgenda,      \* the items that have been on an agenda, read only by the properties
  idx,           \* EnvI::varOccurrences.idx: flat variable -> position in flat (0: none)
  ids,           \* EnvI::_ids, the counter behind genId()
  cseMap,        \* EnvI::_cseMap
  cseHist,       \* history of the flattened calls, read only by the properties
  decls,         \* flat variable declarations: domain, computed-domain flag, type, RHS
  bopts,         \* FlatteningOptions and reverse mappers that steer domain updates
  bindHist,      \* the latest binding and what it found, read only by the properties
  pathMap,       \* VarPathStore::pathMap: path -> (declaration, pass number)
  reversePathMap,    \* VarPathStore::reversePathMap: declaration -> path
  currentPassNumber, \* MultiPassInfo::currentPassNumber
  unified,       \* for every variable the declaration its identifier points to
  pathHist,      \* what new_vardecl returned and added in this pass, for the properties
  lin,           \* a variable defined by lin_exp, and the constraints made from it
  reif,          \* a boolean variable defined by a call, and the call posted for it
  dv,            \* the defines_var annotations that oldflatzinc works on
  par,           \* a par expression handed to flatten_par, and what came back
  scope,         \* the flat() mappings around the flattening of a let
  cs,            \* EnvI's call stack, id stack and counters
  ev,            \* a parameter expression handed to eval_par, and its results
  comp,          \* a comprehension under evaluation by eval_comp
  tup,           \* a tuple membership test handed to eval_bool
  bnd,           \* an expression handed to the bounds visitors, and their answer
  json,          \* an array handed to JSONParser::coerceArray, and its result
  ctxann,        \* the annotations of a declaration that add_ctx_ann works on
  dump           \* what Env::dumpWarnings has written

envVars == <<flat, output, failed, warnings>>
postVars == <<agenda, modifiedVarDecls, convertToRangeDomain, doConvertToRangeDomain, onAgenda>>
pipeVars == <<pc, exc, pos, hadSolveItem, startItem, endItem, agendaIdx, msize, hist, postVars>>
cseVars == <<idx, ids, cseMap, cseHist>>
bindVars == <<decls, bopts, bindHist>>
pathVars == <<pathMap, reversePathMap, currentPassNumber, unified, pathHist>>
moreVars == <<comp, tup, bnd, json, ctxann, dump>>
auxVars == <<lin, reif, dv, par, scope, cs, ev, moreVars>>

vars == <<flat, output, failed, warnings, pc, exc, pos, hadSolveItem,
          startItem, endItem, agendaIdx, msize, hist,
          agenda, modifiedVarDecls, convertToRangeDomain, doConvertToRangeDomain, onAgenda,
          idx, ids, cseMap, cseHist,
          decls, bopts, bindHist,
          pathMap, reversePathMap, currentPassNumber, unified, pathHist,
          lin, reif, dv, par, scope, cs, ev,
          comp, tup, bnd, json, ctxann, dump>>

-----------------------------------------------------------------------------
(* Bounds of the model *)


MaxSrcItems == 3     \* source items visited by one flatten() run
MaxVal == 3          \* largest finite value of an integer domain
MaxPosted == 1       \* constraints posted while domains are updated
MaxPass == 2         \* passes after the first one
MaxVars == 2         \* flat variables introduced by flattening calls

(* Program constants *)

WarningCap == 20

-----------------------------------------------------------------------------
(* Items.  kind is the item id (Item::iid), e the expression it carries.    *)

(* id names the declared variable of a VarDeclI (0 when the model does not   *)
(* follow the variable).                                                    *)

\* A variable declaration item also carries what Cmp reads of its
\* declaration: par or var, the dimension, and the RHS ("none", "call", "id")
VarDeclI(tag, v) ==
  [kind |-> "VD", e |-> tag, removed |-> FALSE, id |-> v,
   par |-> FALSE, dim |-> 0, rhs |-> IF tag = "truedef" THEN "call" ELSE "none",
   alias |-> 0]
VDI(tag) == VarDeclI(tag, 0)
CI(ex) == [kind |-> "CON", e |-> ex, removed |-> FALSE, id |-> 0]
SI(st) == [kind |-> "SOL", e |-> st, removed |-> FALSE, id |-> 0]
OI(ex) == [kind |-> "OUT", e |-> ex, removed |-> FALSE, id |-> 0]
FI(ex) == [kind |-> "FUN", e |-> ex, removed |-> FALSE, id |-> 0]

ConstraintFalse == CI("false")
SolveSat == SI("sat")
EmptyOutput == OI("empty_array")

remove(i) == [i EXCEPT !.removed = TRUE]
removeAll(m) == [k \in 1..Len(m) |-> remove(m[k])]

-----------------------------------------------------------------------------
(* The warning buffer *)

SuppressedWarning == "Further warnings have been suppressed."

addWarning_lateCap(w, msg) ==
  IF Len(w) > WarningCap
    THEN IF Len(w) = WarningCap + 1
           THEN [w |-> Append(w, SuppressedWarning), ret |-> -1]
           ELSE [w |-> w, ret |-> -1]
    ELSE [w |-> Append(w, msg), ret |-> Len(w)]

addWarning(w, msg) ==
  IF Len(w) >= WarningCap
    THEN IF Len(w) = WarningCap
           THEN [w |-> Append(w, SuppressedWarning), ret |-> -1]
           ELSE [w |-> w, ret |-> -1]
    ELSE [w |-> Append(w, msg), ret |-> Len(w)]

-----------------------------------------------------------------------------
(* The environment as a value: operations take it and return the new one.   *)
(* thrown is the exception the operation leaves in flight.                  *)

Env == [flat |-> flat, output |-> output, failed |-> failed,
        warnings |-> warnings, idx |-> idx, thrown |-> "none"]

fail_keepItems(E, msg) ==
  IF ~E.failed
    THEN [E EXCEPT !.warnings = addWarning(@, "model inconsistency detected" \o msg).w,
                   !.failed = TRUE,
                   !.flat = @ \o <<ConstraintFalse, SolveSat>>,
                   !.output = @ \o <<EmptyOutput>>,
                   !.thrown = "ModelInconsistent"]
    ELSE E

fail_unguarded(E, msg) ==
  [E EXCEPT !.warnings = addWarning(@, "model inconsistency detected" \o msg).w,
            !.failed = TRUE,
            !.flat = removeAll(@) \o <<ConstraintFalse, SolveSat>>,
            !.output = removeAll(@) \o <<EmptyOutput>>,
            !.thrown = "ModelInconsistent"]

fail(E, msg) ==
  IF ~E.failed
    THEN [E EXCEPT !.warnings = addWarning(@, "model inconsistency detected" \o msg).w,
                   !.failed = TRUE,
                   !.flat = removeAll(@) \o <<ConstraintFalse, SolveSat>>,
                   !.output = removeAll(@) \o <<EmptyOutput>>,
                   !.thrown = "ModelInconsistent"]
    ELSE E

flatAddItem_unguarded(E, i) ==
  LET E1 == [E EXCEPT !.flat = Append(@, i)]
  IN CASE i.kind = "VD" /\ i.id # 0 ->
            [E1 EXCEPT !.idx[i.id] = Len(E1.flat)]
       [] i.kind = "CON" /\ i.e = "false" -> fail(E1, "")
       [] OTHER -> E1

flatAddItem(E, i) ==
  IF E.failed
    THEN E
    ELSE LET E1 == [E EXCEPT !.flat = Append(@, i)]
         IN CASE i.kind = "VD" /\ i.id # 0 ->
                   [E1 EXCEPT !.idx[i.id] = Len(E1.flat)]
              [] i.kind = "CON" /\ i.e = "false" -> fail(E1, "")
              [] OTHER -> E1

flatRemoveItem(E, k) ==
  [E EXCEPT !.flat[k] = IF @.kind = "CON"
                          THEN [@ EXCEPT !.e = "true", !.removed = TRUE]
                          ELSE remove(@)]

-----------------------------------------------------------------------------
(* The CSE map.  A key is an expression: a var call f(..) or g(..) (the     *)
(* declaration of g is annotated no_cse), bool_not(x) on a flat variable x, *)
(* a par call pa(..) of array type, or the array literal it evaluates to.   *)

Key(i, a, p, n, l) == [id |-> i, arg |-> a, par |-> p, no_cse |-> n, al |-> l]
F == Key("f", 0, FALSE, FALSE, FALSE)
G == Key("g", 0, FALSE, TRUE, FALSE)
BoolNot(v) == Key("bool_not", v, FALSE, FALSE, FALSE)
ParArrayCall == Key("pa", 0, TRUE, FALSE, FALSE)
ArrayLit == Key("arraylit", 0, TRUE, FALSE, TRUE)

\* The flat variables the model follows
VarIds == 1..(MaxVars + 1)

\* An environment without items, warnings or failure
EmptyEnv == [flat |-> <<>>, output |-> <<>>, failed |-> FALSE, warnings |-> <<>>,
             idx |-> [v \in VarIds |-> 0], thrown |-> "none"]

VarCalls == {F, G} \cup {BoolNot(v) : v \in 1..MaxVars}
Keys == VarCalls \cup {ParArrayCall, ArrayLit}

\* Result expressions: an Id of flat variable v, the VarDecl of v, or nothing
None == [t |-> "none", v |-> 0]
IdOf(v) == [t |-> "id", v |-> v]
VarDeclOf(v) == [t |-> "vd", v |-> v]

\* WW(r, b)
WW(r, b) == [present |-> TRUE, r |-> r, b |-> b]
NoEntry == [present |-> FALSE, r |-> None, b |-> "nullptr"]

cseMapInsert_never(map, e, ee) == map

cseMapInsert(map, e, ee) ==
  IF e.par /\ ~e.al THEN map
  ELSE IF e.no_cse THEN map
  ELSE LET m1 == IF map[e].present THEN map ELSE [map EXCEPT ![e] = WW(ee.r, ee.b)]
       IN IF e.id = "bool_not" /\ ee.r.t = "id" /\ ee.b = "true"
            THEN LET neg_c == BoolNot(ee.r.v)
                 IN IF m1[neg_c].present THEN m1
                    ELSE [m1 EXCEPT ![neg_c] = WW(IdOf(e.arg), ee.b)]
            ELSE m1

\* The lookup: hit tells whether an entry is returned, map is the map after it
cseMapFind_noCheck(map, fl, ix, e) ==
  [hit |-> map[e].present, w |-> map[e], map |-> map]

cseMapFind(map, fl, ix, e) ==
  IF map[e].present
    THEN IF map[e].r.t # "none"
           THEN IF map[e].r.t \in {"id", "vd"}
                  THEN LET i == ix[map[e].r.v]
                       IN IF i = 0 \/ fl[i].removed
                            THEN [hit |-> FALSE, w |-> NoEntry, map |-> [map EXCEPT ![e] = NoEntry]]
                            ELSE [hit |-> TRUE, w |-> map[e], map |-> map]
                  ELSE [hit |-> TRUE, w |-> map[e], map |-> map]
           ELSE [hit |-> FALSE, w |-> NoEntry, map |-> [map EXCEPT ![e] = NoEntry]]
    ELSE [hit |-> FALSE, w |-> NoEntry, map |-> map]

\* What the last lookup did, for the history
FindOutcome(map, f) ==
  IF f.hit THEN "hit" ELSE IF f.map # map THEN "dropped" ELSE "miss"

\* History kept for the properties: the result of the latest flattening of
\* every key, forgotten once the variable it names is removed
Forget(prev, fl, ix) ==
  [k \in Keys |->
     IF prev[k].t \in {"id", "vd"} /\ (ix[prev[k].v] = 0 \/ fl[ix[prev[k].v]].removed)
       THEN None ELSE prev[k]]

Record(e, res, outcome) ==
  [cseHist EXCEPT !.prev[e] = res,
                  !.first[e] = IF @ = None THEN res ELSE @,
                  !.who = e, !.res = res, !.n = 1 - @, !.lastFind = outcome]

CommitEnv(E) ==
  /\ flat' = E.flat
  /\ output' = E.output
  /\ failed' = E.failed
  /\ warnings' = E.warnings
  /\ idx' = E.idx

\* flat_exp on a var call e: look the call up, and on a miss introduce a
\* variable for its result and remember it
FlattenCall ==
  \E e \in VarCalls :
    /\ e.id = "bool_not" => e.arg <= ids
    /\ LET f == cseMapFind(cseMap, flat, idx, e)
       IN IF f.hit
            THEN /\ cseMap' = f.map
                 /\ cseHist' = Record(e, f.w.r, "hit")
                 /\ UNCHANGED <<flat, output, failed, warnings, idx, ids>>
            ELSE /\ ids < MaxVars
                 /\ ids' = ids + 1
                 /\ CommitEnv(flatAddItem(Env, VarDeclI("introduced", ids + 1)))
                 /\ cseMap' = cseMapInsert(f.map, e, [r |-> IdOf(ids + 1), b |-> "true"])
                 /\ cseHist' = Record(e, IdOf(ids + 1), FindOutcome(cseMap, f))
    /\ UNCHANGED <<pipeVars, bindVars, pathVars, auxVars>>

\* flatten_par on the par call of array type, without a target variable
FlattenParArray ==
  /\ LET e == ParArrayCall
         f1 == cseMapFind(cseMap, flat, idx, e)
     IN IF f1.hit
          THEN /\ cseMap' = f1.map
               /\ cseHist' = Record(e, IdOf(f1.w.r.v), "hit")
               /\ UNCHANGED <<flat, output, failed, warnings, idx, ids>>
          ELSE LET al == ArrayLit
                   f2 == cseMapFind(f1.map, flat, idx, al)
               IN IF f2.hit
                    THEN /\ cseMap' = f2.map
                         /\ cseHist' = Record(e, IdOf(f2.w.r.v), "hit")
                         /\ UNCHANGED <<flat, output, failed, warnings, idx, ids>>
                    ELSE /\ ids < MaxVars
                         /\ ids' = ids + 1
                         /\ CommitEnv(flatAddItem(Env, VarDeclI("introduced", ids + 1)))
                         /\ LET ee == [r |-> VarDeclOf(ids + 1), b |-> "nullptr"]
                            IN cseMap' = cseMapInsert(cseMapInsert(f2.map, al, ee), al, ee)
                         /\ cseHist' = Record(e, IdOf(ids + 1), FindOutcome(f1.map, f2))
  /\ UNCHANGED <<pipeVars, bindVars, pathVars, auxVars>>

\* The post-pass removes the declaration of flat variable v
RemoveVarDecl ==
  \E v \in 1..MaxVars :
    /\ idx[v] # 0
    /\ ~flat[idx[v]].removed
    /\ CommitEnv(flatRemoveItem(Env, idx[v]))
    /\ cseHist' = [cseHist EXCEPT !.prev = Forget(@, flat', idx'), !.lastFind = "none"]
    /\ UNCHANGED <<ids, cseMap, pipeVars, bindVars, pathVars, auxVars>>

\* The post-pass rewrites the call that defines a variable: cseMapRemove(c)
CseMapRemove ==
  \E e \in VarCalls :
    /\ cseMap[e].present
    /\ cseMap' = [cseMap EXCEPT ![e] = NoEntry]
    /\ cseHist' = [cseHist EXCEPT !.prev[e] = None, !.lastFind = "none"]
    /\ UNCHANGED <<flat, output, failed, warnings, idx, ids, pipeVars, bindVars, pathVars, auxVars>>

\* fail() on the environment whose calls are being flattened
CseFail ==
  /\ ~failed
  /\ CommitEnv(fail(Env, ""))
  /\ cseHist' = [cseHist EXCEPT !.prev = Forget(@, flat', idx'), !.lastFind = "none"]
  /\ UNCHANGED <<ids, cseMap, pipeVars, bindVars, pathVars, auxVars>>

-----------------------------------------------------------------------------
(* Domains of flat variable declarations.  Integer values are seen through  *)
(* the window 0..MaxVal+1 whose ends stand for -infinity and +infinity; an  *)
(* unbounded range reaches at least the neighbouring finite value.          *)

Universe == 0..(MaxVal + 1)
isMinusInfinity(v) == v = 0
isPlusInfinity(v) == v = MaxVal + 1
isFinite(v) == ~isMinusInfinity(v) /\ ~isPlusInfinity(v)

IntSets == {s \in SUBSET Universe :
              /\ (0 \in s => 1 \in s)
              /\ ((MaxVal + 1) \in s => MaxVal \in s)}

Min(s) == CHOOSE v \in s : \A w \in s : v <= w
Max(s) == CHOOSE v \in s : \A w \in s : v >= w

\* IntSetVal::a(l, u)
Range(l, u) == l..u
Intervals == {s \in IntSets : s # {} /\ s = Range(Min(s), Max(s))}

\* IntSetVal::size(): the number of ranges of the set
size(s) == Cardinality({v \in s : (v - 1) \notin s})

\* TypeInst::domain(): nullptr, or a set literal
NullDomain == [null |-> TRUE, s |-> {}]
SetLit(s) == [null |-> FALSE, s |-> s]

\* The values a domain admits
DomainValues(d) == IF d.null THEN Universe ELSE d.s

BVars == {"x", "y"}

\* A declaration as constructed, and the options as constructed
NoDecl == [dom |-> NullDomain, computed |-> FALSE, ty |-> "int", e |-> "none",
           introduced |-> FALSE]
NoOptions == [recordDomainChanges |-> FALSE, reverseMapped |-> {},
              onlyRangeDomains |-> FALSE]

\* The pair of the environment and the declarations that bind() works on
BindEnv == [E |-> Env, D |-> decls]

\* Posting n calls in root context
RECURSIVE postCalls(_, _)
postCalls(E, n) == IF n = 0 THEN E ELSE postCalls(flatAddItem(E, CI("call")), n - 1)

\* The number of calls create_explicit_domain_constraints posts for
\* variable v and the new domain s
explicitCalls(D, v, s) ==
  IF D[v].ty \in {"opt", "set"} THEN 1
  ELSE IF size(s) = 1
         THEN IF Min(s) = Max(s) THEN 1
              ELSE LET cisv == DomainValues(D[v].dom)
                   IN (IF Min(cisv) < Min(s) THEN 1 ELSE 0)
                      + (IF Max(cisv) > Max(s) THEN 1 ELSE 0)
         ELSE 1

create_explicit_domain_constraints(B, v, s) ==
  [B EXCEPT !.E = postCalls(@, explicitCalls(B.D, v, s))]

set_computed_domain_noFlag(B, v, s, is_computed) ==
  [B EXCEPT !.D[v].dom = SetLit(s)]

set_computed_domain(B, v, s, is_computed) ==
  IF v \in bopts.reverseMapped
    THEN [create_explicit_domain_constraints(B, v, s) EXCEPT !.D[v].dom = SetLit(s)]
  ELSE IF bopts.recordDomainChanges /\ ~B.D[v].introduced
    THEN create_explicit_domain_constraints(B, v, s)
  ELSE [B EXCEPT !.D[v].dom = SetLit(s), !.D[v].computed = is_computed]

\* compute_int_bounds / compute_intset_bounds of the identifier x: the
\* bounds as a set, or "invalid"
rhsBoundsOfId(D, x) ==
  IF D[x].ty = "set"
    THEN IF ~D[x].dom.null THEN [valid |-> TRUE, s |-> D[x].dom.s]
         ELSE [valid |-> FALSE, s |-> {}]
    ELSE IF ~D[x].dom.null
           THEN IF D[x].dom.s = {} THEN [valid |-> FALSE, s |-> {}]
                ELSE [valid |-> TRUE, s |-> Range(Min(D[x].dom.s), Max(D[x].dom.s))]
           ELSE [valid |-> TRUE, s |-> Universe]

\* bind() without a declaration, on a call: the variable v that new_vardecl
\* returned for the call is tightened to the bounds ibv of the call
bindCall(B, v, ibv) ==
  LET d == B.D[v]
      newibv == d.dom.s \cap ibv
      is_computed == IF ~d.dom.null THEN (IF ibv = newibv THEN TRUE ELSE d.computed)
                     ELSE TRUE
      ibv1 == IF ~d.dom.null /\ ibv # newibv THEN newibv ELSE ibv
      B1 == [B EXCEPT !.D[v].e = "call"]
  IN IF d.ty # "set" /\ ibv1 = {}
       THEN [B1 EXCEPT !.E = fail(@, "")]
       ELSE set_computed_domain(B1, v, ibv1, is_computed)

\* bind() of the declaration y, which has no RHS yet, to the flat expression
\* rhs: an identifier, or a call with the given bounds
bindDecl(B, y, rhs, aliasEq) ==
  LET D == B.D
      ident == rhs.id
      ti == D[y]
      B1 ==
        IF ident # "none" /\ D[ident].dom.null
          THEN IF ~ti.dom.null
                 THEN set_computed_domain(B, ident, ti.dom.s, D[ident].computed)
                 ELSE B
          ELSE LET rb == IF ident # "none" THEN rhsBoundsOfId(D, ident)
                         ELSE [valid |-> TRUE, s |-> rhs.bounds]
                   combinedBounds == IF ~ti.dom.null THEN ti.dom.s \cap rb.s ELSE rb.s
               IN IF ~rb.valid THEN B
                  ELSE IF ~ti.dom.null /\ combinedBounds = {} /\ ti.ty # "set"
                    THEN [B EXCEPT !.E = fail(@, "")]
                    ELSE LET B2 == [B EXCEPT !.D[y].dom = SetLit(combinedBounds),
                                             !.D[y].computed = TRUE]
                         IN IF ident # "none" /\ combinedBounds # rb.s
                              THEN set_computed_domain(B2, ident, combinedBounds, FALSE)
                              ELSE B2
      domChange == B1.D[y].dom # D[y].dom
      B3 == IF B1.E.thrown = "none" /\ y \in bopts.reverseMapped
              THEN LET B4 == IF ident # "none" /\ aliasEq
                               THEN [B1 EXCEPT !.E = postCalls(@, 1)] ELSE B1
                   IN IF domChange
                        THEN set_computed_domain(B4, y, B4.D[y].dom.s, B4.D[y].computed)
                        ELSE B4
              ELSE B1
  IN IF B3.E.thrown = "none"
       THEN [B3 EXCEPT !.D[y].e = IF ident # "none" THEN ident ELSE "call"]
       ELSE B3

\* check_domain_constraints on int_le(lb, v) (side "ge") or int_le(v, ub)
\* (side "le") with the par bound c: the new state and the value returned
check_domain_constraints(B, v, side, c) ==
  LET d == B.D[v].dom
      cr == IF side = "ge" THEN Range(c, MaxVal + 1) ELSE Range(0, c)
      narrowed == [B EXCEPT !.D[v].dom = SetLit(d.s \cap cr), !.D[v].computed = FALSE]
  IN IF bopts.recordDomainChanges THEN [B |-> B, ret |-> TRUE]
     ELSE IF side = "ge"
       THEN IF ~d.null
              THEN IF Min(d.s) >= c THEN [B |-> B, ret |-> FALSE]
                   ELSE IF Max(d.s) < c
                          THEN [B |-> [B EXCEPT !.E = fail(@, "")], ret |-> FALSE]
                          ELSE [B |-> narrowed, ret |-> FALSE]
              ELSE [B |-> [B EXCEPT !.D[v].dom = SetLit(cr)], ret |-> FALSE]
       ELSE IF ~d.null
              THEN IF Max(d.s) <= c THEN [B |-> B, ret |-> FALSE]
                   ELSE IF Min(d.s) > c
                          THEN [B |-> [B EXCEPT !.E = fail(@, "")], ret |-> FALSE]
                          ELSE [B |-> narrowed, ret |-> TRUE]
              ELSE [B |-> [B EXCEPT !.D[v].dom = SetLit(cr)], ret |-> TRUE]

\* The post-pass on the declaration of the integer variable v: an empty
\* domain fails the model; a domain that has to be a range is converted when
\* convert is set
postpassDomain(B, v, convert) ==
  LET dom == B.D[v].dom.s
      needRangeDomain == \/ bopts.onlyRangeDomains
                         \/ isMinusInfinity(Min(dom))
                         \/ isPlusInfinity(Max(dom))
  IN IF dom = {} THEN [B EXCEPT !.E = fail(@, ": Variable has empty domain")]
     ELSE IF needRangeDomain /\ convert
       THEN LET B1 == IF isMinusInfinity(Min(dom)) \/ isPlusInfinity(Max(dom))
                        THEN [B EXCEPT !.D[v].dom = NullDomain,
                                       !.E = IF isFinite(Min(dom)) \/ isFinite(Max(dom))
                                               THEN postCalls(@, 1) ELSE @]
                        ELSE IF size(dom) > 1
                               THEN [B EXCEPT !.D[v].dom = SetLit(Range(Min(dom), Max(dom)))]
                               ELSE B
            IN IF size(dom) > 1 THEN [B1 EXCEPT !.E = postCalls(@, 1)] ELSE B1
       ELSE B

\* What a binding of v found before it acted: whether v had a domain and
\* the flag, whether bounds were inferred for the RHS, whether they lie
\* within the domain, and whether they miss it altogether
Found(op, v, inferred, bounds) ==
  [op |-> op, v |-> v, inferred |-> inferred,
   priorNull |-> decls[v].dom.null,
   priorComputed |-> decls[v].computed,
   within |-> inferred /\ bounds \subseteq DomainValues(decls[v].dom),
   disjoint |-> inferred /\ DomainValues(decls[v].dom) \cap bounds = {},
   all |-> inferred /\ DomainValues(decls[v].dom) \subseteq bounds]

NoBind == [op |-> "none", v |-> "x", inferred |-> FALSE, priorNull |-> TRUE,
           priorComputed |-> FALSE, within |-> FALSE, disjoint |-> FALSE, all |-> FALSE]

CommitBind(B, h) ==
  /\ CommitEnv(B.E)
  /\ decls' = B.D
  /\ bindHist' = h
  /\ UNCHANGED <<bopts, pipeVars, ids, cseMap, cseHist, pathVars, auxVars>>

CanPost == Len(flat) < MaxPosted

BoundsFor(v) == IF decls[v].ty = "set" THEN IntSets ELSE Intervals

BindCallStep(v, ibv) ==
  /\ ~failed /\ CanPost
  /\ decls[v].introduced
  /\ decls[v].e = "none"
  /\ ibv \in BoundsFor(v)
  /\ CommitBind(bindCall(BindEnv, v, ibv),
                Found("bindCall", v, TRUE, ibv))

BindCall == \E v \in BVars, ibv \in IntSets : BindCallStep(v, ibv)

BindDeclIdStep(y, x, aliasEq) ==
  /\ ~failed /\ CanPost
  /\ x # y
  /\ decls[y].e = "none"
  /\ decls[x].e # y
  /\ CommitBind(bindDecl(BindEnv, y, [id |-> x, bounds |-> {}], aliasEq),
                Found("bindDecl", y,
                      ~decls[x].dom.null /\ rhsBoundsOfId(decls, x).valid,
                      rhsBoundsOfId(decls, x).s))

BindDeclId ==
  \E y \in BVars, x \in BVars, aliasEq \in BOOLEAN : BindDeclIdStep(y, x, aliasEq)

BindDeclCallStep(y, bounds) ==
  /\ ~failed /\ CanPost
  /\ decls[y].e = "none"
  /\ bounds \in BoundsFor(y)
  /\ CommitBind(bindDecl(BindEnv, y, [id |-> "none", bounds |-> bounds], FALSE),
                Found("bindDecl", y, TRUE, bounds))

BindDeclCall == \E y \in BVars, bounds \in IntSets : BindDeclCallStep(y, bounds)

AbsorbDomainConstraint ==
  \E v \in BVars, side \in {"ge", "le"}, c \in 1..MaxVal :
    /\ ~failed
    /\ decls[v].ty = "int"
    /\ decls[v].dom.null \/ decls[v].dom.s # {}
    /\ CommitBind(check_domain_constraints(BindEnv, v, side, c).B, NoBind)

PostpassDomain ==
  \E v \in BVars, convert \in BOOLEAN :
    /\ ~failed /\ CanPost
    /\ decls[v].ty = "int"
    /\ ~decls[v].dom.null
    /\ CommitBind(postpassDomain(BindEnv, v, convert), NoBind)

-----------------------------------------------------------------------------
(* The path store and new_vardecl                                           *)

Paths == {"p", "q"}

NoPathVar == [present |-> FALSE, decl |-> 0, passNumber |-> 0]
PathVar(vd, pass) == [present |-> TRUE, decl |-> vd, passNumber |-> pass]

\* ReversePathMap::insert: the first path registered for a declaration stays
reversePathMapInsert(rpm, vd, path) ==
  IF rpm[vd] = "none" THEN [rpm EXCEPT ![vd] = path] ELSE rpm

\* The path lookup of new_vardecl for a non-array type: the variable, whether
\* it is already in the flat model, and the maps afterwards; fresh is the
\* declaration a `new VarDecl` yields
lookupPath_forgetful(pm, rpm, path, fresh) ==
  [vd |-> fresh, hasBeenAdded |-> FALSE, pm |-> pm, rpm |-> rpm]

lookupPath(pm, rpm, path, fresh) ==
  IF path = "" THEN [vd |-> fresh, hasBeenAdded |-> FALSE, pm |-> pm, rpm |-> rpm]
  ELSE IF pm[path].present
    THEN LET ovd == pm[path].decl
         IN IF ovd # 0
              THEN LET same == currentPassNumber = pm[path].passNumber
                       vd == IF same THEN ovd ELSE fresh
                   IN IF unified[ovd] # ovd /\ rpm[unified[ovd]] # "none"
                        THEN LET path2 == rpm[unified[ovd]]
                                 vd_tup == PathVar(vd, currentPassNumber)
                             IN [vd |-> vd, hasBeenAdded |-> same,
                                 pm |-> [pm EXCEPT ![path] = vd_tup, ![path2] = vd_tup],
                                 rpm |-> reversePathMapInsert(rpm, vd, path)]
                        ELSE [vd |-> vd, hasBeenAdded |-> same, pm |-> pm, rpm |-> rpm]
              ELSE [vd |-> fresh, hasBeenAdded |-> FALSE, pm |-> pm, rpm |-> rpm]
    ELSE [vd |-> fresh, hasBeenAdded |-> FALSE,
          pm |-> [pm EXCEPT ![path] = PathVar(fresh, currentPassNumber)],
          rpm |-> reversePathMapInsert(rpm, fresh, path)]

\* The path is registered for a live declaration of this pass
Reuses(path) ==
  /\ path # ""
  /\ pathMap[path].present
  /\ pathMap[path].decl # 0
  /\ pathMap[path].passNumber = currentPassNumber

\* new_vardecl with the call stack giving path; revMap tells whether the type
\* has a reverse mapper
NewVardecl ==
  \E path \in Paths \cup {""}, revMap \in BOOLEAN :
    /\ Reuses(path) \/ ids < MaxVars + 1
    /\ LET r == lookupPath(pathMap, reversePathMap, path, ids + 1)
       IN
       /\ r.hasBeenAdded => (idx[r.vd] # 0 /\ ~revMap)
       /\ pathMap' = r.pm
       /\ reversePathMap' = r.rpm
       /\ ids' = IF r.vd = ids + 1 THEN ids + 1 ELSE ids
       /\ IF r.hasBeenAdded
            THEN UNCHANGED <<flat, output, failed, warnings, idx>>
            ELSE CommitEnv(flatAddItem(IF revMap THEN flatAddItem(Env, CI("call")) ELSE Env,
                                       VarDeclI("introduced", r.vd)))
       /\ pathHist' = IF path = "" THEN pathHist
                      ELSE [pathHist EXCEPT
                              !.returned[path] = @ \cup {r.vd},
                              !.added[path] = IF r.hasBeenAdded \/ @ = 2 THEN @ ELSE @ + 1]
       /\ UNCHANGED <<currentPassNumber, unified, pipeVars, cseMap, cseHist, bindVars, auxVars>>

\* An identifier is pointed to another declaration: v is unified with w
Unify ==
  \E v \in 1..ids, w \in 1..ids :
    /\ v # w
    /\ unified[v] = v /\ unified[w] = w
    /\ \A u \in 1..ids : u # v => unified[u] # v
    /\ unified' = [unified EXCEPT ![v] = w]
    /\ UNCHANGED <<flat, output, failed, warnings, pipeVars, cseVars, bindVars,
                   pathMap, reversePathMap, currentPassNumber, pathHist, auxVars>>

NoPathHist == [returned |-> [p \in Paths |-> {}], added |-> [p \in Paths |-> 0]]

\* The next pass starts on a new environment that takes the path maps over
\* (copyPathMapsAndState); the declarations of the earlier pass are either
\* all still alive or all collected, which clears the weak references
NextPass ==
  \E collected \in BOOLEAN :
    /\ currentPassNumber < MaxPass
    /\ currentPassNumber' = currentPassNumber + 1
    /\ pathMap' = [p \in Paths |->
                     IF collected /\ pathMap[p].present
                       THEN [pathMap[p] EXCEPT !.decl = 0] ELSE pathMap[p]]
    /\ flat' = <<>>
    /\ idx' = [v \in VarIds |-> 0]
    /\ pathHist' = NoPathHist
    /\ UNCHANGED <<output, failed, warnings, ids, cseMap, cseHist, reversePathMap, unified,
                   pipeVars, bindVars, auxVars>>

-----------------------------------------------------------------------------
(* flatten(): the top-level catch, the item visitor, the post-pass loop     *)

\* catch (ModelInconsistent&) {} at the end of flatten(): where control goes
\* when exception t unwinds out of the try block
flattenCatch_rethrow(t) == [pc |-> "escaped", exc |-> t]

flattenCatch(t) ==
  IF t = "ModelInconsistent"
    THEN [pc |-> "returned", exc |-> "none"]
    ELSE [pc |-> "escaped", exc |-> t]

\* Write back the environment E computed by a step of flatten(); nextpc is
\* where the step continues when nothing was thrown
Commit(E, nextpc) ==
  /\ flat' = E.flat
  /\ output' = E.output
  /\ failed' = E.failed
  /\ warnings' = E.warnings
  /\ IF E.thrown = "none"
       THEN pc' = nextpc /\ exc' = exc
       ELSE pc' = flattenCatch(E.thrown).pc /\ exc' = flattenCatch(E.thrown).exc
  /\ idx' = E.idx
  /\ hist' = [hist EXCEPT !.raisedInFlatten = @ \/ E.thrown = "ModelInconsistent",
                          !.loopAfterFail = @ \/ (hist.raisedInFlatten /\ nextpc \in {"pp_vd", "pp_rw"})]
  /\ UNCHANGED <<ids, cseMap, cseHist, bindVars, pathVars, auxVars>>

\* Kinds of source item the visitor meets, by what flattening them does
SrcKinds == {"vd", "vd_unused", "vd_empty", "vd_truedef", "vd_opt", "vd_range",
             "con_true", "con_call", "con_redef", "con_not_true",
             "con_par_false", "con_id_false", "solve_sat", "solve_min"}

IsConstraintKind(k) ==
  k \in {"con_true", "con_call", "con_redef", "con_not_true", "con_par_false", "con_id_false"}

\* FlattenModelVisitor applied to one source item of kind k
visitItem(E, k) ==
  CASE k = "vd" -> flatAddItem(E, VDI("int"))
    [] k = "vd_unused" -> flatAddItem(E, VDI("unused"))
    [] k = "vd_empty" -> flatAddItem(E, VDI("empty"))
    [] k = "vd_truedef" -> flatAddItem(E, VDI("truedef"))
    [] k = "vd_opt" -> flatAddItem(E, VDI("opt"))
    [] k = "vd_range" -> flatAddItem(E, VDI("range"))
    [] k = "con_true" -> E
    [] k = "con_call" -> flatAddItem(E, CI("call"))
    [] k = "con_redef" -> flatAddItem(E, CI("redef"))
    [] k = "con_not_true" -> flatAddItem(E, CI("not_true"))
    [] k = "con_par_false" -> fail(E, ": expression evaluated to false")
    [] k = "con_id_false" -> flatAddItem(E, ConstraintFalse)
    [] k = "solve_sat" -> flatAddItem(E, SI("sat"))
    [] k = "solve_min" -> flatAddItem(E, SI("min"))

FlattenStart ==
  /\ pc = "ready"
  /\ pc' = "items"
  /\ pos' = 0
  /\ hadSolveItem' = FALSE
  /\ UNCHANGED <<flat, output, failed, warnings, exc, startItem, endItem, agendaIdx, msize, hist>>
  /\ UNCHANGED <<postVars, cseVars, bindVars, pathVars, auxVars>>

FlattenItem ==
  /\ pc = "items"
  /\ pos < MaxSrcItems
  /\ \E k \in SrcKinds :
       /\ pos' = pos + 1
       /\ IF IsConstraintKind(k) /\ failed
            THEN \* enter() returns false: the item is not visited
                 /\ Commit(Env, "items")
                 /\ UNCHANGED hadSolveItem
            ELSE IF k \in {"solve_sat", "solve_min"} /\ hadSolveItem
                   THEN /\ Commit([Env EXCEPT !.thrown = "FlatteningError"], "items")
                        /\ UNCHANGED hadSolveItem
                   ELSE /\ Commit(visitItem(Env, k), "items")
                        /\ hadSolveItem' = (hadSolveItem \/ k \in {"solve_sat", "solve_min"})
  /\ UNCHANGED <<startItem, endItem, agendaIdx, msize, postVars>>

\* create_output / copy_output: the output model receives its output item
create_output(E) == [E EXCEPT !.output = Append(@, OI("expr"))]

\* if (!hadSolveItem) flatAddItem(SolveI::sat(..))
addMissingSolveItem_never(E, had) == E

addMissingSolveItem(E, had) == IF ~had THEN flatAddItem(E, SolveSat) ELSE E

\* End of the item traversal up to the head of the post-pass loop
FlattenItemsDone ==
  /\ pc = "items"
  /\ LET E1 == addMissingSolveItem(Env, hadSolveItem)
         E2 == create_output(E1)
     IN /\ Commit(E2, "pp_head")
        /\ startItem' = 1
        /\ endItem' = Len(E2.flat)
  /\ UNCHANGED <<pos, hadSolveItem, agendaIdx, msize, postVars>>

\* The condition of the post-pass loop
loopCondition_itemsOnly(s, e, mvd, conv) == s <= e

loopCondition(s, e, mvd, conv) == s <= e \/ mvd # <<>> \/ conv # <<>>

\* The indices s..e in order, and the set of the entries of a queue
Interval(s, e) == [i \in 1..(IF e >= s THEN e - s + 1 ELSE 0) |-> s + i - 1]
Entries(q) == {q[i] : i \in 1..Len(q)}

\* while (...) { if (env.failed()) return; agenda = ...; }
PostpassHead ==
  /\ pc = "pp_head"
  /\ IF loopCondition(startItem, endItem, modifiedVarDecls, convertToRangeDomain)
       THEN IF failed
              THEN pc' = "returned" /\ UNCHANGED <<agendaIdx, hist, postVars>>
              ELSE LET ag == Interval(startItem, endItem) \o modifiedVarDecls
                       ag1 == IF ag = <<>> THEN convertToRangeDomain ELSE ag
                   IN /\ pc' = "pp_vd"
                      /\ agenda' = ag1
                      /\ modifiedVarDecls' = <<>>
                      /\ convertToRangeDomain' =
                           IF ag = <<>> THEN <<>> ELSE convertToRangeDomain
                      /\ doConvertToRangeDomain' = (ag = <<>>)
                      /\ onAgenda' = onAgenda \cup Entries(ag1)
                      /\ agendaIdx' = 1
                      /\ hist' = [hist EXCEPT !.loopAfterFail = @ \/ hist.raisedInFlatten]
       ELSE pc' = "pp_tail" /\ UNCHANGED <<agendaIdx, hist, postVars>>
  /\ UNCHANGED <<flat, output, failed, warnings, exc, pos, hadSolveItem, startItem, endItem, msize>>
  /\ UNCHANGED <<cseVars, bindVars, pathVars, auxVars>>

\* An integer variable whose domain has to become a range
needRangeDomain(it) == it.kind = "VD" /\ ~it.removed /\ it.e = "range"

\* First loop over the agenda: one variable declaration item
postpassVarDecl(E, k, doConvert) ==
  LET it == E.flat[k]
  IN IF it.kind # "VD" \/ it.removed THEN E
     ELSE CASE it.e = "unused" -> flatRemoveItem(E, k)
            [] it.e = "truedef" -> flatRemoveItem(flatAddItem(E, CI("call")), k)
            [] it.e = "empty" -> fail(E, ": Variable has empty domain")
            [] it.e = "range" ->
                 IF doConvert
                   THEN flatAddItem([E EXCEPT !.flat[k].e = "int"], CI("call"))
                   ELSE E
            [] OTHER -> E

PostpassVarDecl ==
  /\ pc = "pp_vd"
  /\ IF agendaIdx <= Len(agenda)
       THEN LET k == agenda[agendaIdx]
            IN /\ Commit(postpassVarDecl(Env, k, doConvertToRangeDomain), "pp_vd")
               /\ agendaIdx' = agendaIdx + 1
               /\ convertToRangeDomain' =
                    IF needRangeDomain(flat[k]) /\ ~doConvertToRangeDomain
                      THEN Append(convertToRangeDomain, k)
                      ELSE convertToRangeDomain
       ELSE /\ Commit(Env, "pp_rw")
            /\ agendaIdx' = 1
            /\ UNCHANGED convertToRangeDomain
  /\ UNCHANGED <<pos, hadSolveItem, startItem, endItem, msize>>
  /\ UNCHANGED <<agenda, modifiedVarDecls, doConvertToRangeDomain, onAgenda>>

\* Second loop over the agenda: rewrite one constraint item
postpassRewrite(E, k) ==
  LET it == E.flat[k]
  IN IF it.removed \/ it.kind # "CON" THEN E
     ELSE CASE it.e = "redef" ->
                 LET E1 == flatAddItem(E, CI("call"))
                 IN IF E1.thrown = "none" THEN flatRemoveItem(E1, k) ELSE E1
            [] it.e = "not_true" -> fail(E, "")
            [] OTHER -> E

\* The declarations that flattening the redefinition of item k may give a
\* RHS to (voAddExp), 0 for none
Touched(k) ==
  IF ~flat[k].removed /\ flat[k].kind = "CON" /\ flat[k].e = "redef"
    THEN {0} \cup {j \in 1..Len(flat) : flat[j].kind = "VD" /\ ~flat[j].removed}
    ELSE {0}

PostpassRewrite ==
  /\ pc = "pp_rw"
  /\ IF agendaIdx <= Len(agenda)
       THEN \E vd \in Touched(agenda[agendaIdx]) :
              /\ Commit(postpassRewrite(Env, agenda[agendaIdx]), "pp_rw")
              /\ agendaIdx' = agendaIdx + 1
              /\ modifiedVarDecls' =
                   IF vd # 0 THEN Append(modifiedVarDecls, vd) ELSE modifiedVarDecls
              /\ UNCHANGED <<startItem, endItem>>
       ELSE /\ Commit(Env, "pp_head")
            /\ startItem' = endItem + 1
            /\ endItem' = Len(flat)
            /\ UNCHANGED <<agendaIdx, modifiedVarDecls>>
  /\ UNCHANGED <<pos, hadSolveItem, msize>>
  /\ UNCHANGED <<agenda, convertToRangeDomain, doConvertToRangeDomain, onAgenda>>

\* After the loop: output redefinitions, finalise_output, cleanup_output
PostpassTail ==
  /\ pc = "pp_tail"
  /\ Commit(Env, "returned")
  /\ UNCHANGED <<pos, hadSolveItem, startItem, endItem, agendaIdx, msize, postVars>>

-----------------------------------------------------------------------------
(* oldflatzinc() *)

\* cleanup_constraint on the expression of a constraint item: the new
\* expression, or "nullptr" when the constraint is to be deleted
cleanup_constraint(ce) ==
  CASE ce = "false" -> "bool_eq(false,true)"
    [] ce = "true" -> "nullptr"
    [] OTHER -> ce

\* One iteration of the first loop of oldflatzinc, on item k; builtin tells
\* whether the call's declaration is a solver builtin not yet in the FlatZinc
oldflatzincItem(E, k, builtin) ==
  LET it == E.flat[k]
  IN IF it.removed THEN E
     ELSE CASE it.kind = "CON" ->
                 LET E1 == IF it.e \in {"call", "redef", "not_true"} /\ builtin
                             THEN flatAddItem(E, FI("predicate"))
                             ELSE E
                     nce == cleanup_constraint(it.e)
                 IN IF nce # "nullptr"
                      THEN [E1 EXCEPT !.flat[k].e = nce]
                      ELSE [E1 EXCEPT !.flat[k] = remove(@)]
            [] OTHER -> E

\* Cmp::operator(): i goes before j
Cmp(i, j) ==
  IF i.kind = "FUN" \/ j.kind = "FUN"
    THEN IF i.kind = j.kind THEN FALSE ELSE i.kind = "FUN"
    ELSE IF i.kind = "SOL" THEN FALSE
    ELSE IF j.kind = "SOL" THEN TRUE
    ELSE IF i.kind = "VD"
      THEN IF j.kind # "VD" THEN TRUE
           ELSE IF i.par /\ ~j.par THEN TRUE
           ELSE IF j.par /\ ~i.par THEN FALSE
           ELSE IF i.dim = 0 /\ j.dim # 0 THEN TRUE
           ELSE IF i.dim # 0 /\ j.dim = 0 THEN FALSE
           ELSE IF i.rhs = "none" /\ j.rhs # "none" THEN TRUE
           ELSE i.rhs = "call" /\ j.rhs = "id"
    ELSE FALSE

\* std::stable_sort with Cmp: insert x into the sorted sequence s behind
\* every element it does not go before
RECURSIVE InsertSorted(_, _)
InsertSorted(s, x) ==
  IF s = <<>> THEN <<x>>
  ELSE IF Cmp(x, s[Len(s)])
         THEN Append(InsertSorted(SubSeq(s, 1, Len(s) - 1), x), s[Len(s)])
         ELSE Append(s, x)

stable_sort_asIs(m) == m

RECURSIVE stable_sort(_)
stable_sort(m) ==
  IF m = <<>> THEN <<>>
  ELSE InsertSorted(stable_sort(SubSeq(m, 1, Len(m) - 1)), m[Len(m)])

\* Model::compact(): drop the items marked removed
compact(m) == SelectSeq(m, LAMBDA i : ~i.removed)

\* The item of the declaration an Id RHS points to (0: none in the model)
declIndex(m, a) ==
  IF \E k \in 1..Len(m) : m[k].kind = "VD" /\ m[k].id = a /\ a # 0
    THEN CHOOSE k \in 1..Len(m) : m[k].kind = "VD" /\ m[k].id = a
    ELSE 0

\* The indices recorded in declsWithIds: the declarations among the first n
\* items that are not removed and have an Id as RHS
declsWithIds(m, n) ==
  SelectSeq([k \in 1..n |-> k],
            LAMBDA k : ~m[k].removed /\ m[k].kind = "VD" /\ m[k].rhs = "id")

\* The stack built for a declaration: the chain of aliases from cur onwards
\* whose payload is still negative
RECURSIVE aliasStack(_, _, _)
aliasStack(m, cur, pending) ==
  IF cur = 0 \/ cur \notin pending THEN <<>>
  ELSE <<cur>> \o aliasStack(m, declIndex(m, m[cur].alias), pending \ {cur})

RECURSIVE sortedVarDecls(_, _, _, _, _)
sortedVarDecls(m, dw, k, pending, out) ==
  IF k > Len(dw) THEN out
  ELSE LET stack == aliasStack(m, dw[k], pending)
           popped == [i \in 1..Len(stack) |-> stack[Len(stack) + 1 - i]]
       IN sortedVarDecls(m, dw, k + 1, pending \ {stack[i] : i \in 1..Len(stack)},
                         out \o popped)

\* "Sort VarDecls in FlatZinc so that VarDecls are declared before use": the
\* declarations with an Id RHS are put back into the places of declsWithIds,
\* every alias behind the aliases it refers to
sortVarDecls_asIs(m, n) == m

sortVarDecls(m, n) ==
  LET dw == declsWithIds(m, n)
      sorted == sortedVarDecls(m, dw, 1, {dw[i] : i \in 1..Len(dw)}, <<>>)
  IN [k \in 1..Len(m) |->
        IF \E i \in 1..Len(dw) : dw[i] = k
          THEN m[sorted[CHOOSE i \in 1..Len(dw) : dw[i] = k]]
          ELSE m[k]]

OldFlatzincStart ==
  /\ pc = "returned"
  /\ pc' = "fzn"
  /\ flat' = [k \in 1..Len(flat) |->
               IF flat[k].kind = "VD" /\ flat[k].e = "opt" THEN remove(flat[k]) ELSE flat[k]]
  /\ msize' = Len(flat)
  /\ agendaIdx' = 1
  /\ UNCHANGED <<output, failed, warnings, exc, pos, hadSolveItem, startItem, endItem, hist, postVars>>
  /\ UNCHANGED <<cseVars, bindVars, pathVars, auxVars>>

OldFlatzincItem ==
  /\ pc = "fzn"
  /\ agendaIdx <= msize
  /\ \E builtin \in BOOLEAN :
       LET E == oldflatzincItem(Env, agendaIdx, builtin)
       IN /\ flat' = E.flat
          /\ output' = E.output
          /\ failed' = E.failed
          /\ warnings' = E.warnings
          /\ idx' = E.idx
  /\ agendaIdx' = agendaIdx + 1
  /\ UNCHANGED <<pc, exc, pos, hadSolveItem, startItem, endItem, msize, hist, postVars>>
  /\ UNCHANGED <<ids, cseMap, cseHist, bindVars, pathVars, auxVars>>

OldFlatzincFinish ==
  /\ pc = "fzn"
  /\ agendaIdx > msize
  /\ flat' = stable_sort(compact(sortVarDecls(flat, msize)))
  /\ output' = compact(output)
  /\ pc' = "done"
  /\ UNCHANGED <<failed, warnings, exc, pos, hadSolveItem, startItem, endItem, agendaIdx, msize, hist, postVars>>
  /\ UNCHANGED <<cseVars, bindVars, pathVars, auxVars>>

-----------------------------------------------------------------------------
(* Calls made on the environment from outside flatten() and oldflatzinc()   *)

\* EnvI::addWarning called by any component
AddWarning ==
  /\ warnings' = addWarning(warnings, "warning").w
  /\ hist' = [hist EXCEPT !.lastRet = addWarning(warnings, "warning").ret]
  /\ UNCHANGED <<flat, output, failed, pc, exc, pos, hadSolveItem, startItem, endItem, agendaIdx, msize, postVars>>
  /\ UNCHANGED <<cseVars, bindVars, pathVars, auxVars>>

\* EnvI::fail called by a component that runs before flatten() or between
\* flatten() and oldflatzinc(); the exception goes to that caller
ExternalFail ==
  /\ pc \in {"ready", "returned"}
  /\ LET E == fail(Env, "")
     IN /\ flat' = E.flat
        /\ output' = E.output
        /\ failed' = E.failed
        /\ warnings' = E.warnings
  /\ UNCHANGED <<pc, exc, pos, hadSolveItem, startItem, endItem, agendaIdx, msize, hist, postVars>>
  /\ UNCHANGED <<cseVars, bindVars, pathVars, auxVars>>

\* EnvI::fail called by any component at any time; what the call found and
\* what it raised is kept for the properties
FailCall ==
  /\ LET E == fail(Env, "")
     IN /\ CommitEnv(E)
        /\ hist' = [hist EXCEPT !.lastCall = "fail", !.priorFailed = failed,
                                !.prior = <<flat, output, warnings>>,
                                !.thrown = E.thrown]
  /\ UNCHANGED <<pc, exc, pos, hadSolveItem, startItem, endItem, agendaIdx, msize, postVars>>
  /\ UNCHANGED <<ids, cseMap, cseHist, bindVars, pathVars, auxVars>>

\* EnvI::flatAddItem called by any component at any time
FlatAddItemCall ==
  \E i \in {VDI("int"), CI("call"), SolveSat, ConstraintFalse} :
    /\ failed \/ Len(flat) < MaxSrcItems
    /\ LET E == flatAddItem(Env, i)
       IN /\ CommitEnv(E)
          /\ hist' = [hist EXCEPT !.lastCall = "flatAddItem", !.priorFailed = failed,
                                  !.prior = <<flat, output, warnings>>,
                                  !.thrown = E.thrown,
                                  !.addedOnFailed = @ \/ failed]
    /\ UNCHANGED <<pc, exc, pos, hadSolveItem, startItem, endItem, agendaIdx, msize, postVars>>
    /\ UNCHANGED <<ids, cseMap, cseHist, bindVars, pathVars, auxVars>>

-----------------------------------------------------------------------------
(* A variable z defined by lin_exp(c, x, d): the post-pass of flatten() and  *)
(* oldflatzinc() turn the definition into a linear equation                 *)

MaxLinTerms == 2
MaxFrames == 2
MaxGens == 2
MaxGenSize == 2
MaxTuples == 2
MaxBnd == 2
MaxRanges == 2
MaxCard == 2
MaxAliasItems == 3
MaxCtxCalls == 3
MaxDumpWarnings == 3

LinCoeffs == 1..2
LinArgs == {"x", "y"}
LinConsts == -1..1

NoCall == [id |-> "none", c |-> <<>>, x |-> <<>>, d |-> 0, ann |-> {}]
LinExp(c, x, d) == [id |-> "lin_exp", c |-> c, x |-> x, d |-> d, ann |-> {}]

\* The declaration of z: its type, its RHS e and its is_defined_var
\* annotation; whether the library gives int_lin_eq and float_lin_eq a
\* body; the call nc built from the RHS, by which stage, and the stage reached
NoLin == [ty |-> "int", e |-> NoCall, orig |-> NoCall, is_defined_var |-> FALSE,
          int_lin_eq |-> FALSE, float_lin_eq |-> FALSE,
          nc |-> NoCall, by |-> "none", stage |-> "idle"]

\* make_defined_var(env, vd, c) on the declaration in L and the call c
make_defined_var(L, c) ==
  IF ~L.is_defined_var
    THEN [L EXCEPT !.is_defined_var = TRUE, !.nc = [c EXCEPT !.ann = @ \cup {"defines_var(z)"}]]
    ELSE [L EXCEPT !.nc = c]

\* The equation for lin_exp(c, x, d) = z under the name cid
LinEq(cid, e, d) ==
  [id |-> cid, c |-> Append(e.c, -1), x |-> Append(e.x, "z"), d |-> d, ann |-> {}]

\* The post-pass on the declaration of z. The branch for int_lin_eq is also
\* taken by a float lin_exp when only int_lin_eq has a body; it then reads
\* the float constant as an integer literal, which yields the value garbage
linPostpass(L, garbage) ==
  IF L.e.id # "lin_exp" THEN L
  ELSE IF L.ty = "float" /\ L.float_lin_eq
    THEN [make_defined_var(L, LinEq("float_lin_eq", L.e, -L.e.d))
            EXCEPT !.e = NoCall, !.by = "postpass"]
  ELSE IF L.int_lin_eq
    THEN [make_defined_var(L, LinEq("int_lin_eq", L.e,
                                    IF L.ty = "int" THEN -L.e.d ELSE garbage))
            EXCEPT !.e = NoCall, !.by = "postpass"]
  ELSE L

\* oldflatzinc on the declaration of z
linOldflatzinc(L) ==
  IF L.e.id # "lin_exp" THEN L
  ELSE [make_defined_var(L, LinEq(IF L.ty = "int" THEN "int_lin_eq" ELSE "float_lin_eq",
                                  L.e, -L.e.d))
          EXCEPT !.e = NoCall, !.by = "oldflatzinc"]

LinPostpass ==
  /\ lin.stage = "flat"
  /\ \E garbage \in LinConsts : lin' = [linPostpass(lin, garbage) EXCEPT !.stage = "postpassed"]
  /\ UNCHANGED <<envVars, pipeVars, cseVars, bindVars, pathVars>>
  /\ UNCHANGED <<reif, dv, par, scope, cs, ev, moreVars>>

LinOldflatzinc ==
  /\ lin.stage = "postpassed"
  /\ lin' = [linOldflatzinc(lin) EXCEPT !.stage = "fzn"]
  /\ UNCHANGED <<envVars, pipeVars, cseVars, bindVars, pathVars>>
  /\ UNCHANGED <<reif, dv, par, scope, cs, ev, moreVars>>

-----------------------------------------------------------------------------
(* A boolean variable b defined by a call p(..) of a predicate other than   *)
(* exists, forall, clause and bool_not: which variant of p is posted        *)

\* The declaration of b (isTrueVar: its domain is the literal true; pos: it
\* is annotated with ctx.pos), the option, which declarations the model
\* has (has_imp, has_reif) and which of them have a body; then what was
\* posted for the RHS: the variant, by which stage, and what was thrown
NoReif == [isTrueVar |-> FALSE, pos |-> FALSE, enableHalfReification |-> FALSE,
           has_imp |-> FALSE, has_reif |-> FALSE,
           p_body |-> FALSE, imp_body |-> FALSE, reif_body |-> FALSE,
           e |-> "none", variant |-> "none", by |-> "none",
           thrown |-> "none", stage |-> "idle"]

\* The identifier that the call for a variable not fixed to true gets:
\* halfReifyId when its declaration is found, else reifyId when that one is
\* found, else none
reifyChoice_ignoreOption(r) ==
  IF r.pos /\ r.has_imp THEN "imp"
  ELSE IF r.has_reif THEN "reif"
  ELSE "none"

reifyChoice(r) ==
  IF r.enableHalfReification /\ r.pos /\ r.has_imp THEN "imp"
  ELSE IF r.has_reif THEN "reif"
  ELSE "none"

\* Whether the declaration of the chosen identifier has a body
ChosenHasBody(r) ==
  IF reifyChoice(r) = "imp" THEN r.imp_body ELSE r.reif_body

\* The post-pass on the declaration of b
reifPostpass(r) ==
  IF r.isTrueVar
    THEN IF r.p_body
           THEN [r EXCEPT !.e = "none", !.variant = "body", !.by = "postpass"]
           ELSE r
    ELSE IF reifyChoice(r) = "none"
           THEN [r EXCEPT !.thrown = "FlatteningError"]
           ELSE IF ChosenHasBody(r)
                  THEN [r EXCEPT !.e = "none", !.variant = reifyChoice(r), !.by = "postpass"]
                  ELSE r

\* cleanup_vardecl in oldflatzinc on the declaration of b
reifOldflatzinc(r) ==
  IF r.e = "none" THEN r
  ELSE IF r.isTrueVar
    THEN [r EXCEPT !.e = "none", !.variant = "direct", !.by = "oldflatzinc"]
    ELSE IF reifyChoice(r) = "none"
           THEN [r EXCEPT !.e = "none", !.thrown = "FlatteningError"]
           ELSE [r EXCEPT !.e = "none", !.variant = reifyChoice(r), !.by = "oldflatzinc"]

ReifPostpass ==
  /\ reif.stage = "flat"
  /\ reif' = [reifPostpass(reif) EXCEPT
                !.stage = IF reifPostpass(reif).thrown = "none" THEN "postpassed" ELSE "escaped"]
  /\ UNCHANGED <<envVars, pipeVars, cseVars, bindVars, pathVars>>
  /\ UNCHANGED <<lin, dv, par, scope, cs, ev, moreVars>>

ReifOldflatzinc ==
  /\ reif.stage = "postpassed"
  /\ reif' = [reifOldflatzinc(reif) EXCEPT
                !.stage = IF reifOldflatzinc(reif).thrown = "none" THEN "fzn" ELSE "escaped"]
  /\ UNCHANGED <<envVars, pipeVars, cseVars, bindVars, pathVars>>
  /\ UNCHANGED <<lin, dv, par, scope, cs, ev, moreVars>>

-----------------------------------------------------------------------------
(* defines_var annotations in oldflatzinc: the definitions recorded in the  *)
(* first loop and the cycle breaking behind it                              *)

DVars == {"x", "y", "z"}

DFS_UNKNOWN == 0
DFS_SEEN == 1
DFS_DONE == 2

\* A declaration with the call f(args) as its RHS (no RHS: args = <<>>)
DeclItem(v, args) == [kind |-> "VD", id |-> v, def |-> "none", args |-> args]

\* A constraint f(args) annotated defines_var(def), or unannotated
\* (def = "none")
ConsItem(def, args) == [kind |-> "CON", id |-> "none", def |-> def, args |-> args]

NoDv ==
  [flat |-> <<>>, is_defined_var |-> [v \in DVars |-> FALSE],
   keepDefinesVar |-> TRUE, msize |-> 0,
   definition_map |-> [v \in DVars |-> 0], definitions |-> <<>>,
   stage |-> "idle"]

\* The first loop of oldflatzinc over the items 1..msize: a call RHS becomes
\* a constraint added behind the model, an annotated constraint is recorded
\* in definition_map unless its variable already has an entry
RECURSIVE dvCleanup(_, _)
dvCleanup(D, i) ==
  IF i > D.msize THEN D
  ELSE
    LET it == D.flat[i] IN
    IF it.kind = "VD" /\ it.args # <<>> THEN
      LET annotate == ~D.is_defined_var[it.id]
          nc == ConsItem(IF annotate /\ D.keepDefinesVar THEN it.id ELSE "none",
                         it.args \o <<it.id>>)
      IN dvCleanup([D EXCEPT !.flat = Append([@ EXCEPT ![i].args = <<>>], nc),
                             !.is_defined_var[it.id] = TRUE],
                   i + 1)
    ELSE IF it.kind = "CON" /\ it.def # "none" THEN
      IF ~D.keepDefinesVar THEN
        dvCleanup([D EXCEPT !.flat[i].def = "none"], i + 1)
      ELSE IF D.definition_map[it.def] # 0 THEN
        dvCleanup([D EXCEPT !.flat[i].def = "none"], i + 1)
      ELSE
        dvCleanup([D EXCEPT !.definition_map[it.def] = i,
                            !.definitions = Append(@, it.def)],
                  i + 1)
    ELSE dvCleanup(D, i + 1)

\* The state of the depth-first search: the stack, the colour of each
\* variable, and the model whose annotations it drops
checkId(S, cur, ident) ==
  IF cur = ident THEN S
  ELSE IF S.definition_map[ident] = 0 THEN S
  ELSE IF S.color[ident] = DFS_UNKNOWN THEN
    [S EXCEPT !.definesStack = Append(@, ident)]
  ELSE IF S.color[ident] = DFS_SEEN THEN
    [S EXCEPT !.is_defined_var[ident] = FALSE,
              !.flat[S.definition_map[ident]].def = "none"]
  ELSE S

RECURSIVE checkArgs(_, _, _, _)
checkArgs(S, cur, args, k) ==
  IF k > Len(args) THEN S
  ELSE checkArgs(checkId(S, cur, args[k]), cur, args, k + 1)

RECURSIVE dfsWhile(_)
dfsWhile(S) ==
  IF S.definesStack = <<>> THEN S
  ELSE
    LET cur == S.definesStack[Len(S.definesStack)] IN
    IF S.color[cur] # DFS_UNKNOWN THEN
      dfsWhile([S EXCEPT !.color[cur] = DFS_DONE,
                         !.definesStack = SubSeq(@, 1, Len(@) - 1)])
    ELSE
      dfsWhile(checkArgs([S EXCEPT !.color[cur] = DFS_SEEN], cur,
                         S.flat[S.definition_map[cur]].args, 1))

RECURSIVE dfsFor(_, _)
dfsFor(S, k) ==
  IF k > Len(S.definitions) THEN S
  ELSE
    LET it == S.definitions[k] IN
    IF S.color[it] = DFS_UNKNOWN
      THEN dfsFor(dfsWhile([S EXCEPT !.definesStack = <<it>>]), k + 1)
      ELSE dfsFor(S, k + 1)

\* Detect and break cycles in defines_var annotations
dvBreakCycles(D) ==
  IF ~D.keepDefinesVar THEN D
  ELSE
    LET S == dfsFor([flat |-> D.flat, is_defined_var |-> D.is_defined_var,
                     definition_map |-> D.definition_map,
                     definitions |-> D.definitions,
                     color |-> [v \in DVars |-> DFS_UNKNOWN],
                     definesStack |-> <<>>], 1)
    IN [D EXCEPT !.flat = S.flat, !.is_defined_var = S.is_defined_var]

DvCleanup ==
  /\ dv.stage = "flat"
  /\ dv' = [dvCleanup([dv EXCEPT !.msize = Len(dv.flat)], 1) EXCEPT !.stage = "cleaned"]
  /\ UNCHANGED <<envVars, pipeVars, cseVars, bindVars, pathVars>>
  /\ UNCHANGED <<lin, reif, par, scope, cs, ev, moreVars>>

DvBreakCycles ==
  /\ dv.stage = "cleaned"
  /\ dv' = [dvBreakCycles(dv) EXCEPT !.stage = "done"]
  /\ UNCHANGED <<envVars, pipeVars, cseVars, bindVars, pathVars>>
  /\ UNCHANGED <<lin, reif, par, scope, cs, ev, moreVars>>

-----------------------------------------------------------------------------
(* flatten_par: a par expression of base type bt and dimension dim, whose   *)
(* evaluation gives the outcome out, flattened in context ctx into the      *)
(* result variable r and the definedness variable b                         *)

NoPar ==
  [bt |-> "int", dim |-> 0, cv |-> FALSE, out |-> "value",
   ctx |-> [b |-> "ROOT", neg |-> FALSE], r |-> "nullptr", b |-> "nullptr",
   env |-> EmptyEnv, ret |-> [r |-> "none", b |-> "none"],
   r_e |-> "none", b_e |-> "none", thrown |-> "none", stage |-> "idle"]

BoolNegate(e) == IF e = "true" THEN "false" ELSE "true"

create_dummy_value(bt, dim) == "dummy"

postConstraint_dropped(E, e) == E

\* bind adds the constraint e when it binds a non-identifier to varTrue
postConstraint(E, e) == flatAddItem(E, CI(e))

\* bind(env, ctx, vd, e) for a literal e and vd one of nullptr, varTrue or a
\* variable without right-hand side: the environment, the expression
\* returned, and the right-hand side given to vd
bindPar(E, neg, vd, e) ==
  IF neg THEN
    IF vd = "varTrue" THEN
      IF e # "false"
        THEN [env |-> fail(E, ": expression evaluated to false"), ret |-> "none", e |-> "none"]
        ELSE [env |-> E, ret |-> "true", e |-> "none"]
    ELSE IF vd = "nullptr"
      THEN [env |-> E, ret |-> BoolNegate(e), e |-> "none"]
      ELSE [env |-> E, ret |-> BoolNegate(e), e |-> BoolNegate(e)]
  ELSE IF vd = "varTrue" THEN
    IF e # "true"
      THEN LET E1 == postConstraint(E, e)
           IN [env |-> E1, ret |-> IF E1.thrown = "none" THEN "true" ELSE "none",
               e |-> "none"]
      ELSE [env |-> E, ret |-> "true", e |-> "none"]
  ELSE IF vd = "nullptr" THEN [env |-> E, ret |-> e, e |-> "none"]
  ELSE IF e \in {"true", "false"} THEN [env |-> E, ret |-> e, e |-> e]
  ELSE [env |-> E, ret |-> "id", e |-> e]

\* ret.r is settled as R says; ret.b = bind(env, Ctx(), b, bval)
parReturn(P, R, bval) ==
  IF R.env.thrown # "none"
    THEN [P EXCEPT !.env = R.env, !.thrown = R.env.thrown]
    ELSE LET B == bindPar(R.env, FALSE, P.b, bval) IN
         IF B.env.thrown # "none"
           THEN [P EXCEPT !.env = B.env, !.r_e = R.e, !.thrown = B.env.thrown]
           ELSE [P EXCEPT !.env = B.env, !.ret = [r |-> R.ret, b |-> B.ret],
                          !.r_e = R.e, !.b_e = B.e]

undefinedWitness_alwaysTrue(isbool) == "true"

\* The literal bound to b when flat_cv_exp raised ResultUndefinedError
undefinedWitness(isbool) == IF isbool THEN "true" ELSE "false"

flatten_par(P) ==
  LET isbool == P.bt = "bool" /\ P.dim = 0
      dummy == [env |-> P.env, ret |-> create_dummy_value(P.bt, P.dim), e |-> "none"]
  IN
  IF P.cv THEN
    IF P.out # "undefined"
      THEN parReturn(P, bindPar(P.env, P.ctx.neg, P.r, P.out), "true")
    ELSE parReturn(P,
                   IF isbool THEN bindPar(P.env, P.ctx.neg, P.r, "false") ELSE dummy,
                   undefinedWitness(isbool))
  ELSE IF P.dim > 0 THEN
    IF P.out = "undefined"
      THEN [P EXCEPT !.thrown = "ResultUndefinedError"]
      ELSE parReturn(P, bindPar(P.env, P.ctx.neg, P.r, P.out), "true")
  ELSE
    \* eval_bool turns an undefined result into false
    LET result == IF isbool /\ P.out = "undefined" THEN "false" ELSE P.out IN
    IF result = "undefined" THEN parReturn(P, dummy, "false")
    ELSE
      LET E1 == IF isbool /\ P.ctx.b = "ROOT" /\ P.r = "varTrue" /\ result = "false"
                  THEN fail(P.env, ": expression evaluated to false")
                  ELSE P.env
      IN IF E1.thrown # "none"
           THEN [P EXCEPT !.env = E1, !.thrown = E1.thrown]
           ELSE parReturn(P, bindPar(E1, P.ctx.neg, P.r, result), "true")

FlattenPar ==
  /\ par.stage = "call"
  /\ par' = [flatten_par(par) EXCEPT
               !.stage = IF flatten_par(par).thrown = "none" THEN "returned" ELSE "escaped"]
  /\ UNCHANGED <<envVars, pipeVars, cseVars, bindVars, pathVars>>
  /\ UNCHANGED <<lin, reif, dv, scope, cs, ev, moreVars>>

-----------------------------------------------------------------------------
(* flatten_let: the flat() mapping of the declarations of a let.  An item   *)
(* is a declaration with a right-hand side, a declaration without one, or a *)
(* constraint; throwAt names the item (or, behind the last item, the body)  *)
(* whose flattening raises exc, 0 if none does                              *)

NoScope ==
  [items |-> <<>>, ctx_b |-> "ROOT", promise_total |-> FALSE,
   flat |-> <<>>, before |-> <<>>, flatmap |-> <<>>,
   throwAt |-> 0, exc |-> "none", thrown |-> "none", stage |-> "idle"]

\* The loop over the items of the let, from item i on
RECURSIVE letItems(_, _)
letItems(S, i) ==
  IF i > Len(S.items) THEN S
  ELSE
    LET le == S.items[i] IN
    IF le = "con" THEN
      IF S.throwAt = i THEN [S EXCEPT !.thrown = S.exc] ELSE letItems(S, i + 1)
    ELSE IF le = "vd_rhs" /\ S.throwAt = i THEN [S EXCEPT !.thrown = S.exc]
    ELSE IF le = "vd_free" /\ S.ctx_b \in {"NEG", "MIX"} /\ ~S.promise_total THEN
      [S EXCEPT !.thrown = "FlatteningError"]
    ELSE
      letItems([S EXCEPT !.flatmap = Append(@, S.flat[i]), !.flat[i] = "let"], i + 1)

\* Restore previous mapping
RECURSIVE letRestore(_, _, _)
letRestore(S, i, j) ==
  IF i > Len(S.items) THEN S
  ELSE IF S.items[i] = "con" THEN letRestore(S, i + 1, j)
  ELSE letRestore([S EXCEPT !.flat[i] = S.flatmap[j]], i + 1, j + 1)

flatten_let(S) ==
  LET S1 == letItems(S, 1) IN
  IF S1.thrown # "none" THEN S1
  ELSE IF S.throwAt = Len(S.items) + 1 THEN [S1 EXCEPT !.thrown = S.exc]
  ELSE letRestore(S1, 1, 1)

FlattenLet ==
  /\ scope.stage = "call"
  /\ scope' = [flatten_let(scope) EXCEPT
                 !.stage = IF flatten_let(scope).thrown = "none" THEN "returned" ELSE "escaped"]
  /\ UNCHANGED <<envVars, pipeVars, cseVars, bindVars, pathVars>>
  /\ UNCHANGED <<lin, reif, dv, par, cs, ev, moreVars>>

\* flat_cv_exp and flatten_par catch the ResultUndefinedError that left the
\* flattening of the let, and flattening goes on
FlatCvExpRecovers ==
  /\ scope.stage = "escaped"
  /\ scope.thrown = "ResultUndefinedError"
  /\ scope' = [scope EXCEPT !.stage = "recovered"]
  /\ UNCHANGED <<envVars, pipeVars, cseVars, bindVars, pathVars>>
  /\ UNCHANGED <<lin, reif, dv, par, cs, ev, moreVars>>

-----------------------------------------------------------------------------
(* The call stack while the post-pass posts a rewritten call: the two       *)
(* CallStackItems of the path annotations are created with new, those of    *)
(* the expressions flattened below are local objects                        *)

CsKinds == {"VarDecl", "redundant_constraint", "symmetry_breaking_constraint", "Call"}

NoCs ==
  [callStack |-> <<>>, idStack |-> <<>>,
   inRedundantConstraint |-> 0, inSymmetryBreakingConstraint |-> 0,
   inMaybePartial |-> 0,
   vsl |-> FALSE, csl |-> FALSE, thrown |-> "none", stage |-> "idle"]

\* CallStackItem::CallStackItem(env, e) behind checkCancel, for an
\* expression of kind k that is or is not annotated maybe_partial
csiConstruct(S, k, mp, heap) ==
  LET ty == CASE k = "VarDecl" -> "CSI_VD"
              [] k = "redundant_constraint" -> "CSI_REDUNDANT"
              [] k = "symmetry_breaking_constraint" -> "CSI_SYMMETRY"
              [] OTHER -> "CSI_NONE"
  IN [S EXCEPT
        !.idStack = IF ty = "CSI_VD" THEN Append(@, Len(S.callStack)) ELSE @,
        !.inRedundantConstraint = IF ty = "CSI_REDUNDANT" THEN @ + 1 ELSE @,
        !.inSymmetryBreakingConstraint = IF ty = "CSI_SYMMETRY" THEN @ + 1 ELSE @,
        !.inMaybePartial = IF mp THEN @ + 1 ELSE @,
        !.callStack = Append(@, [e |-> k, csiType |-> ty, maybePartial |-> mp,
                                 heap |-> heap])]

\* CallStackItem::~CallStackItem() of the item that pushed the frame f
csiDestroy(S, f) ==
  [S EXCEPT
     !.idStack = IF f.csiType = "CSI_VD" THEN SubSeq(@, 1, Len(@) - 1) ELSE @,
     !.inRedundantConstraint = IF f.csiType = "CSI_REDUNDANT" THEN @ - 1 ELSE @,
     !.inSymmetryBreakingConstraint = IF f.csiType = "CSI_SYMMETRY" THEN @ - 1 ELSE @,
     !.inMaybePartial = IF f.maybePartial THEN @ - 1 ELSE @,
     !.callStack = SubSeq(@, 1, Len(@) - 1)]

\* Stack unwinding destroys the local CallStackItems, innermost first; an
\* item created with new is destroyed by delete only
RECURSIVE unwind(_, _)
unwind(S, k) ==
  IF k = 0 \/ S.callStack[k].heap THEN S
  ELSE unwind(csiDestroy(S, S.callStack[k]), k - 1)

raise(S, x) ==
  [unwind(S, Len(S.callStack)) EXCEPT !.thrown = x, !.stage = "unwound"]

\* flatten creates the items of the path annotations of the declaration and
\* of the call (vsi, csi) with new; checkCancel may raise in either
\* constructor
CsPostCall ==
  /\ cs.stage = "postpass"
  /\ \E cancelVsi \in BOOLEAN, cancelCsi \in BOOLEAN :
       LET S1 == IF cs.vsl THEN csiConstruct(cs, "StringLit", FALSE, TRUE) ELSE cs
           S2 == IF cs.csl THEN csiConstruct(S1, "StringLit", FALSE, TRUE) ELSE S1
       IN cs' = IF cs.vsl /\ cancelVsi THEN raise(cs, "cancelled")
                ELSE IF cs.csl /\ cancelCsi THEN raise(S1, "cancelled")
                ELSE [S2 EXCEPT !.stage = "flat_exp"]
  /\ UNCHANGED <<envVars, pipeVars, cseVars, bindVars, pathVars>>
  /\ UNCHANGED <<lin, reif, dv, par, scope, ev, moreVars>>

\* A flattening function enters with a local CallStackItem
CsEnter ==
  /\ cs.stage = "flat_exp"
  /\ Len(SelectSeq(cs.callStack, LAMBDA f : ~f.heap)) < MaxFrames
  /\ \E k \in CsKinds, mp \in BOOLEAN, cancel \in BOOLEAN :
       cs' = IF cancel THEN raise(cs, "cancelled")
                       ELSE csiConstruct(cs, k, mp, FALSE)
  /\ UNCHANGED <<envVars, pipeVars, cseVars, bindVars, pathVars>>
  /\ UNCHANGED <<lin, reif, dv, par, scope, ev, moreVars>>

\* A flattening function returns
CsLeave ==
  /\ cs.stage = "flat_exp"
  /\ cs.callStack # <<>>
  /\ ~cs.callStack[Len(cs.callStack)].heap
  /\ cs' = csiDestroy(cs, cs.callStack[Len(cs.callStack)])
  /\ UNCHANGED <<envVars, pipeVars, cseVars, bindVars, pathVars>>
  /\ UNCHANGED <<lin, reif, dv, par, scope, ev, moreVars>>

\* A flattening function raises FlatteningError or ModelInconsistent
CsRaise ==
  /\ cs.stage = "flat_exp"
  /\ \E x \in {"FlatteningError", "ModelInconsistent"} : cs' = raise(cs, x)
  /\ UNCHANGED <<envVars, pipeVars, cseVars, bindVars, pathVars>>
  /\ UNCHANGED <<lin, reif, dv, par, scope, ev, moreVars>>

RECURSIVE deleteItems(_)
deleteItems(S) ==
  IF S.callStack = <<>> THEN S
  ELSE deleteItems(csiDestroy(S, S.callStack[Len(S.callStack)]))

\* flat_exp(nc) has returned: delete csi; delete vsi
CsPosted ==
  /\ cs.stage = "flat_exp"
  /\ \A k \in 1..Len(cs.callStack) : cs.callStack[k].heap
  /\ cs' = [deleteItems(cs) EXCEPT !.stage = "posted"]
  /\ UNCHANGED <<envVars, pipeVars, cseVars, bindVars, pathVars>>
  /\ UNCHANGED <<lin, reif, dv, par, scope, ev, moreVars>>

-----------------------------------------------------------------------------
(* The parameter evaluator on expressions of type int, bool and ann and     *)
(* one-dimensional array literals of them.  An expression is a record: its  *)
(* kind k, its type ty, the value v of a literal or of the fixed domain of  *)
(* an identifier, d (the declaration of a call or the domain of an          *)
(* identifier) and the subexpressions a                                     *)

Exp(k, ty, v, d, a) == [k |-> k, ty |-> ty, v |-> v, d |-> d, a |-> a]

IntLit(n) == Exp("IntLit", "int", n, "none", <<>>)
BoolLit(n) == Exp("BoolLit", "bool", n, "none", <<>>)
\* An identifier declared with the right-hand side rhs; without one: rhs = <<>>
Id(ty, rhs) == Exp("Id", ty, 0, "none", rhs)
\* An identifier whose declared domain holds the single value n
IdFixed(ty, n) == Exp("Id", ty, n, "fixed", <<>>)
\* An annotation identifier without declaration
AnnId == Exp("Id", "ann", 0, "nodecl", <<>>)
\* l + r, an operator without body
BinOp(l, r) == Exp("BinOp", "int", 0, "none", <<l, r>>)
ITE(ty, c, t, e) == Exp("ITE", ty, 0, "none", <<c, t, e>>)
\* A call: without declaration, declared without body, or of a function
\* without parameters whose body is a[1]
Call(ty, d, a) == Exp("Call", ty, 0, d, a)
ArrayLitOf(a) == Exp("ArrayLit", "array", 0, "none", a)

\* An exception left the evaluation
EvalError == Exp("EvalError", "none", 0, "none", <<>>)
ErrVal == -1

NoEv == [e |-> EvalError, v |-> EvalError, vv |-> EvalError, stage |-> "idle"]

RECURSIVE eval_bool(_)
RECURSIVE eval_int(_)
RECURSIVE eval_par(_)

eval_bool(e) ==
  CASE e.k = "BoolLit" -> e.v
    [] e.k = "Id" ->
         IF e.d = "nodecl" \/ e.a = <<>> THEN ErrVal ELSE eval_bool(e.a[1])
    [] e.k = "ITE" ->
         LET c == eval_bool(e.a[1]) IN
         IF c = ErrVal THEN ErrVal
         ELSE IF c = 1 THEN eval_bool(e.a[2]) ELSE eval_bool(e.a[3])
    [] e.k = "Call" ->
         IF e.d = "body" THEN eval_bool(e.a[1]) ELSE ErrVal
    [] OTHER -> ErrVal

eval_int(e) ==
  IF e.ty = "bool" THEN eval_bool(e)
  ELSE
    CASE e.k = "IntLit" -> e.v
      [] e.k = "Id" ->
           IF e.d = "nodecl" \/ e.a = <<>> THEN ErrVal ELSE eval_int(e.a[1])
      [] e.k = "BinOp" ->
           LET l == eval_int(e.a[1])
               r == eval_int(e.a[2])
           IN IF l = ErrVal \/ r = ErrVal THEN ErrVal ELSE l + r
      [] e.k = "ITE" ->
           LET c == eval_bool(e.a[1]) IN
           IF c = ErrVal THEN ErrVal
           ELSE IF c = 1 THEN eval_int(e.a[2]) ELSE eval_int(e.a[3])
      [] e.k = "Call" ->
           IF e.d = "body" THEN eval_int(e.a[1]) ELSE ErrVal
      [] OTHER -> ErrVal

eval_id_unevaluated(e) == e

\* case E_ID of eval_par
eval_id(e) ==
  IF e.d = "nodecl" THEN (IF e.ty = "ann" THEN e ELSE EvalError)
  ELSE IF e.d = "fixed" /\ e.ty = "bool" THEN BoolLit(e.v)
  ELSE IF e.d = "fixed" /\ e.ty = "int" THEN IntLit(e.v)
  ELSE IF e.a = <<>> THEN e
  ELSE eval_par(e.a[1])

eval_par(e) ==
  CASE e.k = "ArrayLit" ->
         LET args == [i \in 1..Len(e.a) |->
                        IF e.a[i].k \in {"IntLit", "BoolLit"} THEN e.a[i]
                                                            ELSE eval_par(e.a[i])]
         IN IF \E i \in 1..Len(args) : args[i] = EvalError
              THEN EvalError
              ELSE ArrayLitOf(args)
    [] e.k = "Id" -> eval_id(e)
    [] OTHER ->
         IF e.ty = "int" THEN
           LET n == eval_int(e) IN IF n = ErrVal THEN EvalError ELSE IntLit(n)
         ELSE IF e.ty = "bool" THEN
           LET n == eval_bool(e) IN IF n = ErrVal THEN EvalError ELSE BoolLit(n)
         ELSE
           CASE e.k = "ITE" ->
                  LET c == eval_bool(e.a[1]) IN
                  IF c = ErrVal THEN EvalError
                  ELSE IF c = 1 THEN eval_par(e.a[2]) ELSE eval_par(e.a[3])
             [] e.k = "Call" ->
                  IF e.d = "nobody" THEN e
                  ELSE IF e.d = "body" THEN eval_par(e.a[1])
                  ELSE LET args == [i \in 1..Len(e.a) |-> eval_par(e.a[i])]
                       IN IF \E i \in 1..Len(args) : args[i] = EvalError
                            THEN EvalError
                            ELSE Call(e.ty, e.d, args)
             [] OTHER -> e

EvalPar ==
  /\ ev.stage = "given"
  /\ ev' = [ev EXCEPT !.v = eval_par(ev.e),
                      !.stage = IF eval_par(ev.e) = EvalError THEN "raised" ELSE "once"]
  /\ UNCHANGED <<envVars, pipeVars, cseVars, bindVars, pathVars>>
  /\ UNCHANGED <<lin, reif, dv, par, scope, cs, moreVars>>

\* The result is evaluated again
EvalParAgain ==
  /\ ev.stage = "once"
  /\ ev' = [ev EXCEPT !.vv = eval_par(ev.v), !.stage = "twice"]
  /\ UNCHANGED <<envVars, pipeVars, cseVars, bindVars, pathVars>>
  /\ UNCHANGED <<lin, reif, dv, par, scope, cs, moreVars>>

-----------------------------------------------------------------------------
(* eval_comp: the evaluation of a comprehension over par sets and arrays.  *)
(* The recursion of eval_comp_set / eval_comp_array is kept as a stack of  *)
(* frames, one for every for-loop that is running (generators and          *)
(* identifiers are 1-based here).                                          *)

\* A generator: the number of identifiers it declares and its `in` expression
Gen(n, kind, vals) == [n |-> n, kind |-> kind, vals |-> vals]

\* eval_intset / eval_array_lit of an `in` expression under the identifiers
\* bound so far: a set literal, an array literal, or the set 1..i of the
\* first identifier i of the comprehension
evalIn(g, bound) ==
  IF g.kind = "upto" THEN [i \in 1..bound[1] |-> i] ELSE g.vals

\* eval_bool of the where clause (absent: true)
evalWhere(w, bound) ==
  CASE w = "none" -> TRUE
    [] w = "first_is_1" -> bound[1] = 1
    [] OTHER -> FALSE

NoComp ==
  [gens |-> <<>>, where |-> "none", frames |-> <<>>, visited |-> {},
   steps |-> 0, a |-> 0, stage |-> "idle"]

\* One running loop: generator gen, identifier id, the evaluated `in`, and
\* the position the loop has reached (0: before the first iteration)
Frame(gen, id, in, k) == [gen |-> gen, id |-> id, in |-> in, k |-> k]

\* The values and the positions the identifiers are bound to
boundValues(frames) == [j \in 1..Len(frames) |-> frames[j].in[frames[j].k]]
boundPositions(frames) == [j \in 1..Len(frames) |-> frames[j].k]

\* id == e->n_decls(gen)-1
lastDecl_always(C, f) == TRUE

lastDecl(C, f) == f.id = C.gens[f.gen].n

\* eval_comp up to the first loop: in(0) is evaluated
eval_comp(C) ==
  [C EXCEPT !.frames = <<Frame(1, 1, evalIn(C.gens[1], <<>>), 0)>>,
            !.stage = "running"]

\* One iteration of the innermost running loop: the identifier is bound to
\* the next element, then the body is evaluated (last identifier of the
\* last generator), or the loop of the next identifier or generator starts
evalCompIterate(C) ==
  LET n == Len(C.frames)
      f == [C.frames[n] EXCEPT !.k = @ + 1]
      fr == [C.frames EXCEPT ![n] = f]
      bound == boundValues(fr)
  IN IF lastDecl(C, f)
       THEN IF f.gen = Len(C.gens)
              THEN [C EXCEPT !.frames = fr,
                             !.visited = @ \cup {boundPositions(fr)},
                             !.steps = @ + 1,
                             !.a = IF evalWhere(C.where, bound) THEN @ + 1 ELSE @]
              ELSE [C EXCEPT !.frames =
                      Append(fr, Frame(f.gen + 1, 1, evalIn(C.gens[f.gen + 1], bound), 0))]
       ELSE [C EXCEPT !.frames = Append(fr, Frame(f.gen, f.id + 1, f.in, 0))]

\* The innermost loop has run out: it returns to the loop around it, or
\* eval_comp returns
evalCompLoopEnd(C) ==
  LET fr == SubSeq(C.frames, 1, Len(C.frames) - 1)
  IN [C EXCEPT !.frames = fr, !.stage = IF fr = <<>> THEN "returned" ELSE @]

EvalComp ==
  /\ comp.stage = "called"
  /\ comp' = eval_comp(comp)
  /\ UNCHANGED <<envVars, pipeVars, cseVars, bindVars, pathVars>>
  /\ UNCHANGED <<lin, reif, dv, par, scope, cs, ev>>
  /\ UNCHANGED <<tup, bnd, json, ctxann, dump>>

EvalCompIterate ==
  /\ comp.stage = "running"
  /\ comp.frames[Len(comp.frames)].k < Len(comp.frames[Len(comp.frames)].in)
  /\ comp' = evalCompIterate(comp)
  /\ UNCHANGED <<envVars, pipeVars, cseVars, bindVars, pathVars>>
  /\ UNCHANGED <<lin, reif, dv, par, scope, cs, ev>>
  /\ UNCHANGED <<tup, bnd, json, ctxann, dump>>

EvalCompLoopEnd ==
  /\ comp.stage = "running"
  /\ comp.frames[Len(comp.frames)].k = Len(comp.frames[Len(comp.frames)].in)
  /\ comp' = evalCompLoopEnd(comp)
  /\ UNCHANGED <<envVars, pipeVars, cseVars, bindVars, pathVars>>
  /\ UNCHANGED <<lin, reif, dv, par, scope, cs, ev>>
  /\ UNCHANGED <<tup, bnd, json, ctxann, dump>>

-----------------------------------------------------------------------------
(* eval_bool on tuples: elementwise equality and BOT_IN (indices are       *)
(* 1-based here)                                                           *)

NoTup == [t |-> <<>>, S |-> <<>>, r |-> FALSE, stage |-> "idle"]

\* The lambda struct_equal of eval_bool: the fields of structA are compared
\* with the fields of structB at the same position
struct_equal(structA, structB) ==
  \A i \in 1..Len(structA) : structA[i] = structB[i]

\* case BOT_IN of eval_bool: the loop runs over the elements of struct1 and
\* compares struct0 with (*struct1)[0] in every iteration
tupleIn(struct0, struct1) ==
  \E i \in 1..Len(struct1) : struct_equal(struct0, struct1[1])

EvalTupleIn ==
  /\ tup.stage = "called"
  /\ tup' = [tup EXCEPT !.r = tupleIn(tup.t, tup.S), !.stage = "returned"]
  /\ UNCHANGED <<envVars, pipeVars, cseVars, bindVars, pathVars>>
  /\ UNCHANGED <<lin, reif, dv, par, scope, cs, ev>>
  /\ UNCHANGED <<comp, bnd, json, ctxann, dump>>

-----------------------------------------------------------------------------
(* ComputeIntBounds and ComputeFloatBounds: the bounds of an operator      *)
(* applied to sub-expressions whose bounds are on the visitor's stack.     *)
(* Float values are kept as integers here: only their order and sign       *)
(* matter for the operators modelled.                                      *)

\* A pair of bounds on the stack; fin is false when a bound is infinite
Bounds(l, u) == [l |-> l, u |-> u, fin |-> TRUE]
Unbounded == [l |-> 0, u |-> 0, fin |-> FALSE]

\* What a visitor answers: the top of its stack and its valid flag
BoundsResult(l, u, valid) == [l |-> l, u |-> u, valid |-> valid]

NoBnd ==
  [visitor |-> "int", op |-> "none", b0 |-> Bounds(0, 0), b1 |-> Bounds(0, 0),
   out |-> BoundsResult(0, 0, FALSE), stage |-> "idle"]

Abs(x) == IF x < 0 THEN -x ELSE x
Sign(x) == IF x < 0 THEN -1 ELSE 1

\* IntVal::operator/ and IntVal::operator%: C++ division, rounding to zero
IntDiv(a, b) == Sign(a) * Sign(b) * (Abs(a) \div Abs(b))
IntMod(a, b) == a - b * IntDiv(a, b)

Min4(a, b, c, d) == CHOOSE m \in {a, b, c, d} : \A x \in {a, b, c, d} : m <= x
Max4(a, b, c, d) == CHOOSE m \in {a, b, c, d} : \A x \in {a, b, c, d} : m >= x

\* ComputeIntBounds::vBinOp
intBinOpBounds(op, b0, b1) ==
  IF ~b0.fin \/ ~b1.fin THEN BoundsResult(0, 0, FALSE)
  ELSE CASE op = "BOT_PLUS" -> BoundsResult(b0.l + b1.l, b0.u + b1.u, TRUE)
         [] op = "BOT_MINUS" -> BoundsResult(b0.l - b1.u, b0.u - b1.l, TRUE)
         [] op = "BOT_MULT" ->
              LET x0 == b0.l * b1.l
                  x1 == b0.l * b1.u
                  x2 == b0.u * b1.l
                  x3 == b0.u * b1.u
              IN BoundsResult(Min4(x0, x1, x2, x3), Max4(x0, x1, x2, x3), TRUE)
         [] op \in {"BOT_IDIV", "BOT_MOD"} ->
              LET b0f == IF b0.l = 0 THEN 1 ELSE b0.l
                  b0s == IF b0.u = 0 THEN -1 ELSE b0.u
                  b1f == IF b1.l = 0 THEN 1 ELSE b1.l
                  b1s == IF b1.u = 0 THEN -1 ELSE b1.u
                  f(a, b) == IF op = "BOT_IDIV" THEN IntDiv(a, b) ELSE IntMod(a, b)
                  x0 == f(b0f, b1f)
                  x1 == f(b0f, b1s)
                  x2 == f(b0s, b1f)
                  x3 == f(b0s, b1s)
              IN BoundsResult(Min4(x0, x1, x2, x3), Max4(x0, x1, x2, x3), TRUE)
         [] OTHER -> BoundsResult(0, 0, FALSE)

\* ComputeIntBounds::vUnOp: both bounds are negated and swapped
intUnOpBounds(op, b) ==
  CASE op = "UOT_PLUS" -> BoundsResult(b.l, b.u, TRUE)
    [] op = "UOT_MINUS" -> BoundsResult(-b.u, -b.l, TRUE)
    [] OTHER -> BoundsResult(b.l, b.u, FALSE)

\* ComputeFloatBounds::vUnOp: both bounds are negated
floatUnOpBounds(op, b) ==
  CASE op = "UOT_PLUS" -> BoundsResult(b.l, b.u, TRUE)
    [] op = "UOT_MINUS" -> BoundsResult(-b.l, -b.u, TRUE)
    [] OTHER -> BoundsResult(0, 0, FALSE)

BinOps == {"BOT_PLUS", "BOT_MINUS", "BOT_MULT", "BOT_IDIV", "BOT_MOD"}
UnOps == {"UOT_PLUS", "UOT_MINUS", "UOT_NOT"}

ComputeIntBoundsBinOp ==
  /\ bnd.stage = "called" /\ bnd.visitor = "int" /\ bnd.op \in BinOps \cup {"BOT_POW"}
  /\ bnd' = [bnd EXCEPT !.out = intBinOpBounds(bnd.op, bnd.b0, bnd.b1),
                        !.stage = "returned"]
  /\ UNCHANGED <<envVars, pipeVars, cseVars, bindVars, pathVars>>
  /\ UNCHANGED <<lin, reif, dv, par, scope, cs, ev>>
  /\ UNCHANGED <<comp, tup, json, ctxann, dump>>

ComputeIntBoundsUnOp ==
  /\ bnd.stage = "called" /\ bnd.visitor = "int" /\ bnd.op \in UnOps
  /\ bnd' = [bnd EXCEPT !.out = intUnOpBounds(bnd.op, bnd.b0), !.stage = "returned"]
  /\ UNCHANGED <<envVars, pipeVars, cseVars, bindVars, pathVars>>
  /\ UNCHANGED <<lin, reif, dv, par, scope, cs, ev>>
  /\ UNCHANGED <<comp, tup, json, ctxann, dump>>

ComputeFloatBoundsUnOp ==
  /\ bnd.stage = "called" /\ bnd.visitor = "float" /\ bnd.op \in UnOps
  /\ bnd' = [bnd EXCEPT !.out = floatUnOpBounds(bnd.op, bnd.b0), !.stage = "returned"]
  /\ UNCHANGED <<envVars, pipeVars, cseVars, bindVars, pathVars>>
  /\ UNCHANGED <<lin, reif, dv, par, scope, cs, ev>>
  /\ UNCHANGED <<comp, tup, json, ctxann, dump>>

-----------------------------------------------------------------------------
(* JSONParser::coerceArray: an array literal parsed from JSON is given the *)
(* index sets of its declaration. The array is kept by its shape, the      *)
(* sizes of its nesting levels from the outside in; the elements of a      *)
(* level all have the same size.                                           *)

\* A range of the declaration: without domain (elided), or lo..hi
ElidedRange == [null |-> TRUE, lo |-> 0, hi |-> 0]
GivenRange(lo, hi) == [null |-> FALSE, lo |-> lo, hi |-> hi]

\* The builtin card of a range
card(r) == IF r.hi < r.lo THEN 0 ELSE r.hi - r.lo + 1

NoJson ==
  [ranges |-> <<>>, shape |-> <<>>,
   out |-> [kind |-> "none", size |-> 0, args |-> <<>>, check_form |-> FALSE],
   stage |-> "idle"]

RECURSIVE levelProduct(_, _)
levelProduct(shape, n) == IF n = 0 THEN 1 ELSE shape[n] * levelProduct(shape, n - 1)

\* The loop that builds missing_max: the size of the array divided by the
\* cardinality of every given range, one after the other
missingMax_undivided(ranges, i, missing_index, acc) == acc

RECURSIVE missingMax(_, _, _, _)
missingMax(ranges, i, missing_index, acc) ==
  IF i > Len(ranges) THEN acc
  ELSE missingMax(ranges, i + 1, missing_index,
                  IF i # missing_index THEN acc \div card(ranges[i]) ELSE acc)

coerceArray(J) ==
  LET dim == Len(J.ranges)
      nested == dim > 1 /\ Len(J.shape) > 1
      alsize == IF nested THEN levelProduct(J.shape, dim) ELSE J.shape[1]
      missing == {i \in 1..dim : J.ranges[i].null}
      missing_index == IF missing = {} THEN 0 ELSE CHOOSE i \in missing : TRUE
      missing_max == missingMax(J.ranges, 1, missing_index, alsize)
      al == [kind |-> "al", size |-> alsize, args |-> <<>>, check_form |-> FALSE]
  IN IF J.shape[1] = 0
       THEN [kind |-> "al", size |-> 0, args |-> <<>>, check_form |-> FALSE]
     ELSE IF nested /\ Len(J.shape) < dim
       THEN [kind |-> "JSONError", size |-> 0, args |-> <<>>, check_form |-> FALSE]
     ELSE IF Cardinality(missing) > 1
       THEN al
     ELSE [kind |-> "call", size |-> alsize,
           args |-> [i \in 1..dim |->
                       IF i = missing_index THEN GivenRange(1, missing_max)
                       ELSE J.ranges[i]],
           check_form |-> nested]

CoerceArray ==
  /\ json.stage = "called"
  /\ json' = [json EXCEPT !.out = coerceArray(json), !.stage = "returned"]
  /\ UNCHANGED <<envVars, pipeVars, cseVars, bindVars, pathVars>>
  /\ UNCHANGED <<lin, reif, dv, par, scope, cs, ev>>
  /\ UNCHANGED <<comp, tup, bnd, ctxann, dump>>

-----------------------------------------------------------------------------
(* check_domain_constraints on a single-variable int_lin_le, and its       *)
(* caller: bind() of a call into varTrue                                   *)

\* The bound that coeff * x <= y puts on x: an upper bound for coeff >= 0,
\* a lower bound otherwise
linLeBound(coeff, y) ==
  LET r == IntMod(y, coeff)
      q == IntDiv(y, coeff)
  IN IF coeff >= 0 THEN (IF r < 0 THEN q - 1 ELSE q)
                   ELSE (IF r < 0 THEN q + 1 ELSE q)

\* check_domain_constraints on int_lin_le([coeff], [v], y): the new state
\* and the value returned
check_lin_le(B, v, coeff, y) ==
  LET d == B.D[v].dom
      lb == IF coeff >= 0 THEN 0 ELSE linLeBound(coeff, y)
      ub == IF coeff >= 0 THEN linLeBound(coeff, y) ELSE MaxVal + 1
      cr == Range(lb, ub)
  IN IF bopts.recordDomainChanges THEN [B |-> B, ret |-> TRUE]
     ELSE IF ~d.null
       THEN IF Max(d.s) <= ub /\ Min(d.s) >= lb THEN [B |-> B, ret |-> FALSE]
            ELSE IF Min(d.s) > ub \/ Max(d.s) < lb
                   THEN [B |-> [B EXCEPT !.E = fail(@, "")], ret |-> FALSE]
                   ELSE [B |-> [B EXCEPT !.D[v].dom = SetLit(d.s \cap cr),
                                         !.D[v].computed = FALSE],
                         ret |-> FALSE]
       ELSE [B |-> [B EXCEPT !.D[v].dom = SetLit(cr)], ret |-> FALSE]

\* A call bound into varTrue: int_le(c, v), int_le(v, c), int_lin_le([a], [v], y)
IntLeCall(side, v, c) == [id |-> "int_le", side |-> side, v |-> v, c |-> c, coeff |-> 1]
IntLinLeCall(v, coeff, y) == [id |-> "int_lin_le", side |-> "lin", v |-> v, c |-> y, coeff |-> coeff]

checkCall(B, call) ==
  IF call.id = "int_le" THEN check_domain_constraints(B, call.v, call.side, call.c)
  ELSE check_lin_le(B, call.v, call.coeff, call.c)

\* bind(varTrue, call): the call is posted when check_domain_constraints
\* says that it is still required
bindTrueCall(B, call) ==
  LET res == checkCall(B, call)
  IN IF res.ret THEN [res.B EXCEPT !.E = flatAddItem(@, CI("call"))] ELSE res.B

\* What bind(varTrue, call) found and what check_domain_constraints returned
FoundCall(call) ==
  [op |-> "check_domain_constraints", call |-> call,
   priorDom |-> decls[call.v].dom, priorFlat |-> flat,
   ret |-> checkCall(BindEnv, call).ret]

BindTrueCall(call) ==
  /\ ~failed /\ CanPost
  /\ decls[call.v].ty = "int"
  /\ decls[call.v].dom.null \/ decls[call.v].dom.s # {}
  /\ CommitBind(bindTrueCall(BindEnv, call), FoundCall(call))

-----------------------------------------------------------------------------
(* add_ctx_ann: the context annotation of a declaration *)

BCtxs == {"C_ROOT", "C_POS", "C_NEG", "C_MIX"}

NoCtxann == [ann |-> {}, calls |-> <<>>, stage |-> "idle"]

\* ann_to_ctx: the context a declaration is annotated with, and whether it
\* is annotated at all
ann_to_ctx(ann) ==
  IF "C_ROOT" \in ann THEN <<"C_ROOT", TRUE>>
  ELSE IF "C_MIX" \in ann THEN <<"C_MIX", TRUE>>
  ELSE IF "C_POS" \in ann THEN <<"C_POS", TRUE>>
  ELSE IF "C_NEG" \in ann THEN <<"C_NEG", TRUE>>
  ELSE <<"C_MIX", FALSE>>

\* "Determine new context" of add_ctx_ann
newCtx_asPassed(c) == c

newCtx(c) == IF c = "C_ROOT" THEN "C_ROOT" ELSE "C_MIX"

\* add_ctx_ann on the annotations of a declaration
add_ctx_ann(ann, c) ==
  LET nc == ann_to_ctx(ann)[1]
      annotated == ann_to_ctx(ann)[2]
  IN IF annotated
       THEN IF nc = c \/ nc = "C_ROOT" \/ (nc = "C_MIX" /\ c # "C_ROOT")
              THEN ann
              ELSE (ann \ {nc}) \cup {newCtx(c)}
       ELSE ann \cup {c}

AddCtxAnn ==
  \E c \in BCtxs :
    /\ ctxann.stage = "declared"
    /\ Len(ctxann.calls) < MaxCtxCalls
    /\ ctxann' = [ctxann EXCEPT !.ann = add_ctx_ann(@, c), !.calls = Append(@, c)]
    /\ UNCHANGED <<envVars, pipeVars, cseVars, bindVars, pathVars>>
    /\ UNCHANGED <<lin, reif, dv, par, scope, cs, ev>>
    /\ UNCHANGED <<comp, tup, bnd, json, dump>>

-----------------------------------------------------------------------------
(* Env::dumpWarnings: the warnings are written to a stream; the stream is  *)
(* kept as the sequence of what was written (indices are 0-based as in the *)
(* code, the buffer is 1-based)                                            *)

NoDump ==
  [warnings |-> <<>>, werror |-> FALSE, json |-> FALSE, exceptWarning |-> -1,
   os |-> <<>>, stage |-> "idle"]

\* Warning::print / Warning::json of the k-th stored warning
Printed(k, werror, asJson) == [w |-> k, werror |-> werror, json |-> asJson]

\* os << "\n"
Newline == [w |-> 0, werror |-> FALSE, json |-> FALSE]

\* The range-for loop of dumpWarnings from the k-th stored warning onwards
RECURSIVE dumpLoop(_, _, _, _, _)
dumpLoop(D, k, curIdx, didPrint, os) ==
  IF k > Len(D.warnings)
    THEN IF didPrint THEN Append(os, Newline) ELSE os
  ELSE IF curIdx = D.exceptWarning
    THEN dumpLoop(D, k + 1, curIdx, didPrint, os)
  ELSE LET os1 == IF ~D.json /\ (curIdx > 1 \/ (curIdx = 1 /\ D.exceptWarning # 0))
                    THEN Append(os, Newline) ELSE os
       IN dumpLoop(D, k + 1, curIdx + 1, didPrint \/ ~D.json,
                   Append(os1, Printed(D.warnings[k], D.werror, D.json)))

dumpWarnings(D) == dumpLoop(D, 1, 0, FALSE, <<>>)

DumpWarnings ==
  /\ dump.stage = "called"
  /\ dump' = [dump EXCEPT !.os = dumpWarnings(dump), !.stage = "returned"]
  /\ UNCHANGED <<envVars, pipeVars, cseVars, bindVars, pathVars>>
  /\ UNCHANGED <<lin, reif, dv, par, scope, cs, ev>>
  /\ UNCHANGED <<comp, tup, bnd, json, ctxann>>


\* The environment as constructed
InitModel ==
  /\ flat = EmptyEnv.flat
  /\ output = EmptyEnv.output
  /\ failed = EmptyEnv.failed
  /\ warnings = EmptyEnv.warnings
  /\ idx = EmptyEnv.idx
  /\ pc = "ready"
  /\ pos = 0

\* The components that take no part in a run rest in their idle state
IdleLin == lin = NoLin
IdleReif == reif = NoReif
IdleDv == dv = NoDv
IdlePar == par = NoPar
IdleScope == scope = NoScope
IdleCs == cs = NoCs
IdleEv == ev = NoEv
IdleComp == comp = NoComp
IdleTup == tup = NoTup
IdleBnd == bnd = NoBnd
IdleJson == json = NoJson
IdleCtxann == ctxann = NoCtxann
IdleDump == dump = NoDump
IdleMore == IdleComp /\ IdleTup /\ IdleBnd /\ IdleJson /\ IdleCtxann /\ IdleDump

InitAux ==
  IdleLin /\ IdleReif /\ IdleDv /\ IdlePar /\ IdleScope /\ IdleCs /\ IdleEv /\ IdleMore

InitRest ==
  /\ exc = "none"
  /\ hadSolveItem = FALSE
  /\ startItem = 1
  /\ endItem = 0
  /\ agendaIdx = 1
  /\ msize = 0
  /\ hist = [raisedInFlatten |-> FALSE, loopAfterFail |-> FALSE, lastRet |-> 0,
             lastCall |-> "none", priorFailed |-> FALSE, prior |-> <<>>,
             thrown |-> "none", addedOnFailed |-> FALSE]
  /\ agenda = <<>>
  /\ modifiedVarDecls = <<>>
  /\ convertToRangeDomain = <<>>
  /\ doConvertToRangeDomain = FALSE
  /\ onAgenda = {}
  /\ ids = 0
  /\ cseMap = [k \in Keys |-> NoEntry]
  /\ cseHist = [prev |-> [k \in Keys |-> None], first |-> [k \in Keys |-> None],
                who |-> F, res |-> None, n |-> 0, lastFind |-> "none"]
  /\ pathMap = [p \in Paths |-> NoPathVar]
  /\ reversePathMap = [v \in VarIds |-> "none"]
  /\ currentPassNumber = 0
  /\ unified = [v \in VarIds |-> v]
  /\ pathHist = NoPathHist

\* The environment and the declarations at rest
InitIdle ==
  /\ InitModel
  /\ InitRest
  /\ decls = [v \in BVars |-> NoDecl]
  /\ bopts = NoOptions
  /\ bindHist = NoBind

InitEnv == InitModel /\ InitRest /\ InitAux

Init ==
  /\ InitEnv
  /\ decls = [v \in BVars |-> NoDecl]
  /\ bopts = NoOptions
  /\ bindHist = NoBind

\* Two declarations of one type before any binding, each without a domain
\* or with a declared finite one; x is declared by the user, y is
\* introduced; the options are those of the run
DeclaredDomains == (SUBSET (1..MaxVal)) \ {{}}

InitBind ==
  /\ InitEnv
  /\ \E ty \in {"int", "opt", "set"}, dx \in DeclaredDomains, dy \in DeclaredDomains,
        nx \in BOOLEAN, ny \in BOOLEAN :
        decls = [v \in BVars |->
                   [dom |-> IF v = "x" THEN (IF nx THEN NullDomain ELSE SetLit(dx))
                                       ELSE (IF ny THEN NullDomain ELSE SetLit(dy)),
                    computed |-> FALSE, ty |-> ty, e |-> "none",
                    introduced |-> v = "y"]]
  /\ bopts \in {NoOptions,
                [NoOptions EXCEPT !.recordDomainChanges = TRUE],
                [NoOptions EXCEPT !.reverseMapped = {"y"}],
                [NoOptions EXCEPT !.onlyRangeDomains = TRUE]}
  /\ bindHist = NoBind

Next ==
  \/ FlattenStart
  \/ FlattenItem
  \/ FlattenItemsDone
  \/ PostpassHead
  \/ PostpassVarDecl
  \/ PostpassRewrite
  \/ PostpassTail
  \/ OldFlatzincStart
  \/ OldFlatzincItem
  \/ OldFlatzincFinish
  \/ ExternalFail

Spec == Init /\ [][Next]_vars

\* The warning buffer under any sequence of addWarning calls and fail()
NextWarn ==
  \/ AddWarning
  \/ ExternalFail

SpecWarn == Init /\ [][NextWarn]_vars

\* Flattening calls against the CSE map
NextCSE ==
  \/ FlattenCall
  \/ FlattenParArray
  \/ RemoveVarDecl
  \/ CseMapRemove
  \/ CseFail

SpecCSE == Init /\ [][NextCSE]_vars

\* Domain updates of declarations
NextBind ==
  \/ BindCall
  \/ BindDeclId
  \/ BindDeclCall
  \/ PostpassDomain

SpecBind == InitBind /\ [][NextBind]_vars

\* Domain constraints absorbed into declarations, and the post-pass on them
NextDom ==
  \/ AbsorbDomainConstraint
  \/ PostpassDomain

SpecDom == InitBind /\ [][NextDom]_vars

\* Requests for variables over several passes
NextPath ==
  \/ NewVardecl
  \/ Unify
  \/ NextPass

SpecPath == Init /\ [][NextPath]_vars

-----------------------------------------------------------------------------
(* Properties of the failed environment and of flatten()                    *)

\* C1 as stated: once the environment has failed, every item of the flat
\* model is marked removed or is `constraint false;`, `solve satisfy;` or the
\* empty output item, also after the oldflatzinc cleanup
C1_PostFailOnlySkeleton ==
  failed => \A k \in 1..Len(flat) :
              \/ flat[k].removed
              \/ flat[k] = ConstraintFalse
              \/ flat[k] = SolveSat
              \/ flat[k] = EmptyOutput

\* C1 amended: once the environment has failed, every item of the flat model
\* is marked removed or is `constraint false;` or `solve satisfy;`, except
\* that oldflatzinc rewrites the surviving `constraint false;` into
\* `constraint bool_eq(false, true);`
C1_PostFailSkeletonUpToCleanup ==
  failed =>
    \A k \in 1..Len(flat) :
      \/ flat[k].removed
      \/ flat[k] = ConstraintFalse
      \/ flat[k] = CI("bool_eq(false,true)") /\ pc \in {"fzn", "done"}
      \/ flat[k] = SolveSat

\* The failed model after further items were offered and oldflatzinc ran
C1_Witness ==
  /\ failed
  /\ pc = "done"
  /\ pos = MaxSrcItems
  /\ flat = <<CI("bool_eq(false,true)"), SolveSat>>

\* C2: the first fail() marks the environment failed, marks every item that
\* was in the flat model removed, appends one `constraint false;` and one
\* `solve satisfy;`, marks every earlier output item removed and appends a
\* single output item with an empty array
C2_FirstFailEffect ==
  [][(~failed /\ failed') =>
       LET n == Len(flat')
           m == Len(output')
       IN /\ n >= Len(flat) + 2
          /\ \A k \in 1..Len(flat) :
               flat'[k].removed /\ flat'[k].kind = flat[k].kind
          /\ \A k \in 1..(n - 2) : flat'[k].removed
          /\ flat'[n - 1] = ConstraintFalse
          /\ flat'[n] = SolveSat
          /\ m = Len(output) + 1
          /\ \A k \in 1..Len(output) :
               output'[k].removed /\ output'[k].e = output[k].e
          /\ output'[m] = EmptyOutput]_vars

\* A failure that found items in the flat model and in the output model
C2_Witness ==
  /\ failed
  /\ Len(flat) >= 4
  /\ flat[Len(flat) - 1] = ConstraintFalse
  /\ flat[Len(flat)] = SolveSat
  /\ \E k \in 1..Len(flat) : flat[k].kind = "VD" /\ flat[k].removed
  /\ output = <<remove(OI("expr")), EmptyOutput>>

\* C3: a ModelInconsistent raised by fail() while flatten() runs is caught at
\* the top of flatten(): flatten() has returned, the environment is failed,
\* no exception is in flight and no loop iteration ran after the failure
C3_ModelInconsistentCaught ==
  hist.raisedInFlatten =>
    /\ pc \in {"returned", "fzn", "done"}
    /\ exc = "none"
    /\ failed
    /\ ~hist.loopAfterFail

\* flatten() returned after fail() was raised inside the post-pass loop
C3_Witness ==
  /\ hist.raisedInFlatten
  /\ pc = "returned"
  /\ agenda # <<>>

\* C4: the buffer holds at most 20 warnings and then at most one suppression
\* entry; the call made at 20 stored warnings appends the suppression entry,
\* and from then on the buffer does not change
C4_WarningBufferCapped ==
  /\ [](/\ Len(warnings) <= WarningCap + 1
        /\ \A k \in 1..Len(warnings) :
             (warnings[k] = SuppressedWarning) <=> (k = WarningCap + 1))
  /\ [][/\ (Len(warnings) = WarningCap /\ (AddWarning \/ (ExternalFail /\ ~failed)))
             => warnings' = Append(warnings, SuppressedWarning)
        /\ Len(warnings) = WarningCap + 1 => warnings' = warnings]_vars

\* The buffer is closed and a later call was turned away
C4_Witness ==
  /\ Len(warnings) = WarningCap + 1
  /\ warnings[WarningCap + 1] = SuppressedWarning
  /\ hist.lastRet = -1
  /\ failed

-----------------------------------------------------------------------------
(* Properties of the CSE map                                                *)

\* C5 as stated: every flattening of a call yields the result of the first
\* flattening of that call in the environment
C5_SameResultAlways ==
  \A e \in Keys : cseHist.prev[e] # None => cseHist.prev[e] = cseHist.first[e]

\* C5 amended: in an environment that has not failed, flattening a call whose
\* declaration is not annotated no_cse yields the result of the previous
\* flattening of that call, whatever was flattened in between, as long as the
\* variable of that result was not removed and the entry was not taken out
\* by cseMapRemove in between
C5_SameResultWhileCached ==
  [][\A e \in Keys :
       (/\ cseHist'.n # cseHist.n
        /\ cseHist'.who = e
        /\ ~e.no_cse
        /\ ~failed
        /\ cseHist.prev[e] # None)
       => cseHist'.res = cseHist.prev[e]]_vars

\* A call flattened a second time, with another call flattened in between
C5_Witness ==
  /\ cseHist.who = F
  /\ cseHist.lastFind = "hit"
  /\ cseHist.res = IdOf(1)
  /\ ids >= 2
  /\ ~failed

\* C6: a lookup never returns an entry whose result names a flat variable
\* that is removed or not indexed; it drops such an entry and reports a miss
C6_LookupNeverStale ==
  \A e \in Keys :
    LET f == cseMapFind(cseMap, flat, idx, e)
        stale == /\ cseMap[e].present
                 /\ cseMap[e].r.t \in {"id", "vd"}
                 /\ (idx[cseMap[e].r.v] = 0 \/ flat[idx[cseMap[e].r.v]].removed)
    IN /\ (f.hit /\ f.w.r.t \in {"id", "vd"})
            => (idx[f.w.r.v] # 0 /\ ~flat[idx[f.w.r.v]].removed)
       /\ stale => (~f.hit /\ ~f.map[e].present)

\* A flattening whose lookup met a stale entry and dropped it
C6_Witness ==
  /\ cseHist.lastFind = "dropped"
  /\ \E v \in 1..MaxVars : idx[v] # 0 /\ flat[idx[v]].removed

-----------------------------------------------------------------------------
(* Properties of domain updates                                             *)

\* C7: after any flattening step (a binding, an absorbed domain constraint,
\* a post-pass iteration) the domain of every declaration is a subset of the
\* domain it had before the step
C7_DomainsOnlyShrink ==
  [][\A v \in BVars :
       DomainValues(decls'[v].dom) \subseteq DomainValues(decls[v].dom)]_vars

\* The latest binding found the intersection of the declared domain with
\* the inferred bounds of the RHS empty
EmptyIntersection ==
  /\ bindHist.op \in {"bindCall", "bindDecl"}
  /\ bindHist.inferred
  /\ ~bindHist.priorNull
  /\ bindHist.disjoint

\* C8: when binding finds the intersection of the declared domain with the
\* inferred bounds of the RHS empty, the model fails if the type is neither
\* a set nor optional, and does not fail if it is a set or optional
C8_EmptyIntersectionFailsOnlyPlain ==
  EmptyIntersection => (failed <=> decls[bindHist.v].ty = "int")

FlagLeftAlone(v) ==
  \/ v \in bopts.reverseMapped
  \/ bopts.recordDomainChanges /\ ~decls[v].introduced

-----------------------------------------------------------------------------
(* Properties of the path store                                             *)

\* The declaration the identifier of v points to
Canonical(v) == unified[v]

\* C10: in any pass, also one that inherited its path map, the requests for
\* one source path within the pass return the same flat variable, and only
\* one declaration is added to the flat model for it
C10_SamePathSameVariable ==
  \A p \in Paths :
    /\ Cardinality({Canonical(v) : v \in pathHist.returned[p]}) <= 1
    /\ pathHist.added[p] <= 1

-----------------------------------------------------------------------------
(* Properties of the post-pass loop                                         *)

\* The post-pass loop on the flat model that the traversal of up to
\* MaxLoopItems source items leaves
MaxLoopItems == 2

LoopKinds == {"vd", "vd_unused", "vd_empty", "vd_truedef", "vd_range",
              "con_call", "con_redef", "con_not_true"}

RECURSIVE visitAll(_, _)
visitAll(E, ks) ==
  IF ks = <<>> THEN E ELSE visitAll(visitItem(E, Head(ks)), Tail(ks))

InitLoop ==
  /\ \E n \in 0..MaxLoopItems : \E ks \in [1..n -> LoopKinds] :
        LET E == visitAll(EmptyEnv, ks)
        IN /\ flat = E.flat
           /\ output = E.output
           /\ failed = E.failed
           /\ warnings = E.warnings
           /\ idx = E.idx
           /\ pos = n
  /\ pc = "items"
  /\ InitRest
  /\ InitAux
  /\ decls = [v \in BVars |-> NoDecl]
  /\ bopts = NoOptions
  /\ bindHist = NoBind

NextLoop ==
  \/ FlattenItemsDone
  \/ PostpassHead
  \/ PostpassVarDecl
  \/ PostpassRewrite
  \/ PostpassTail

\* flatten() is a sequential program: it keeps taking its next step
SpecLoop == InitLoop /\ [][NextLoop]_vars /\ WF_vars(NextLoop)

InPostpassLoop == pc \in {"pp_head", "pp_vd", "pp_rw"}

\* The loop was left because its condition was false
PostpassLoopDone == pc = "pp_tail" /\ ~failed

\* C11: the post-pass loop reaches a fix-point: once entered it is left
\* again, and when it is left without failure every item of the flat model,
\* the items appended while it ran included, has been on an agenda, and the
\* queue of modified declarations and the queue of pending range-domain
\* conversions are empty
C11_PostpassFixPoint ==
  /\ [](PostpassLoopDone =>
          /\ onAgenda = 1..Len(flat)
          /\ modifiedVarDecls = <<>>
          /\ convertToRangeDomain = <<>>)
  /\ (InPostpassLoop ~> ~InPostpassLoop)

\* The loop was left without failure, and the last item of the flat model
\* was appended while the loop ran and has been on an agenda since
C11_Witness ==
  /\ PostpassLoopDone
  /\ Len(flat) > MaxLoopItems + 1
  /\ Len(flat) \in onAgenda

-----------------------------------------------------------------------------
(* Properties of the rewriting of lin_exp definitions                       *)

\* The RHSs lin_exp(c, x, d) with up to MaxLinTerms terms
LinExps ==
  UNION {{LinExp(c, x, d) : c \in [1..n -> LinCoeffs], x \in [1..n -> LinArgs], d \in LinConsts} :
           n \in 1..MaxLinTerms}

InitLin ==
  /\ InitIdle
  /\ IdleReif /\ IdleDv /\ IdlePar /\ IdleScope /\ IdleCs /\ IdleEv /\ IdleMore
  /\ \E ty \in {"int", "float"}, e \in LinExps, a \in BOOLEAN, i \in BOOLEAN, f \in BOOLEAN :
       lin = [NoLin EXCEPT !.ty = ty, !.e = e, !.orig = e, !.is_defined_var = a,
                           !.int_lin_eq = i, !.float_lin_eq = f, !.stage = "flat"]

NextLin ==
  \/ LinPostpass
  \/ LinOldflatzinc

SpecLin == InitLin /\ [][NextLin]_vars

\* C12: once the post-pass has handled a variable z whose RHS was
\* lin_exp(c, x, d), the RHS is cleared and the call built from it is
\* int_lin_eq(c ++ [-1], x ++ [z], -d), float_lin_eq for a float variable,
\* annotated defines_var(z)
C12_LinExpRewrittenByPostpass ==
  lin.stage \in {"postpassed", "fzn"} =>
    /\ lin.by = "postpass"
    /\ lin.e = NoCall
    /\ lin.nc = [LinEq(IF lin.ty = "int" THEN "int_lin_eq" ELSE "float_lin_eq",
                       lin.orig, -lin.orig.d)
                   EXCEPT !.ann = {"defines_var(z)"}]

-----------------------------------------------------------------------------
(* Properties of the choice between _imp, _reif and the predicate itself    *)

InitReif ==
  /\ InitIdle
  /\ IdleLin /\ IdleDv /\ IdlePar /\ IdleScope /\ IdleCs /\ IdleEv /\ IdleMore
  /\ \E t \in BOOLEAN, p \in BOOLEAN, h \in BOOLEAN, i \in BOOLEAN, r \in BOOLEAN,
        pb \in BOOLEAN, ib \in BOOLEAN, rb \in BOOLEAN :
       /\ ib => i
       /\ rb => r
       /\ reif = [NoReif EXCEPT !.isTrueVar = t, !.pos = p, !.enableHalfReification = h,
                                !.has_imp = i, !.has_reif = r,
                                !.p_body = pb, !.imp_body = ib, !.reif_body = rb,
                                !.e = "call", !.stage = "flat"]

NextReif ==
  \/ ReifPostpass
  \/ ReifOldflatzinc

SpecReif == InitReif /\ [][NextReif]_vars

\* The call defining b has been rewritten, or the rewriting has thrown
ReifSettled == reif.stage \in {"fzn", "escaped"}

\* C13: when the call defining a boolean variable is rewritten, the _imp
\* variant is used if the variable is annotated pos, the predicate has an
\* _imp version and half-reification is enabled; otherwise the _reif variant
\* if the variable is not root and the predicate has a _reif; otherwise the
\* predicate is decomposed via its body or posted directly
C13_VariantAsListed ==
  ReifSettled =>
    /\ reif.thrown = "none"
    /\ reif.variant =
         IF reif.pos /\ reif.has_imp /\ reif.enableHalfReification THEN "imp"
         ELSE IF ~reif.isTrueVar /\ reif.has_reif THEN "reif"
         ELSE IF reif.p_body THEN "body" ELSE "direct"

\* C13 as the code has it: a variable fixed to true gets the predicate
\* itself, decomposed via its body or posted directly; any other variable
\* gets the _imp variant if it is annotated pos, the predicate has an _imp
\* version and half-reification is enabled, otherwise the _reif variant if
\* the predicate has one, and otherwise the rewriting throws FlatteningError
C13_VariantByFixedness ==
  ReifSettled =>
    IF reif.isTrueVar
      THEN /\ reif.thrown = "none"
           /\ reif.variant = IF reif.p_body THEN "body" ELSE "direct"
      ELSE IF reif.pos /\ reif.has_imp /\ reif.enableHalfReification
             THEN reif.thrown = "none" /\ reif.variant = "imp"
             ELSE IF reif.has_reif
                    THEN reif.thrown = "none" /\ reif.variant = "reif"
                    ELSE reif.thrown = "FlatteningError" /\ reif.variant = "none"

\* A variable in pos context got the _imp variant although a _reif exists
C13_Witness ==
  /\ ReifSettled
  /\ ~reif.isTrueVar /\ reif.pos /\ reif.has_reif
  /\ reif.variant = "imp"

-----------------------------------------------------------------------------
(* Properties of the final sorting in oldflatzinc                           *)

MaxSortItems == 3

\* The items oldflatzinc may find in the flat model: function items,
\* declarations of every par/var, dimension and RHS combination,
\* constraints and solve items
SortItems ==
  {FI("predicate"), CI("call"), SI("sat")}
    \cup {[VDI("int") EXCEPT !.par = p, !.dim = d, !.rhs = r] :
            p \in BOOLEAN, d \in 0..1, r \in {"none", "call", "id"}}

InitSort ==
  /\ \E n \in 0..MaxSortItems : flat \in [1..n -> SortItems]
  /\ output = EmptyEnv.output
  /\ failed = EmptyEnv.failed
  /\ warnings = EmptyEnv.warnings
  /\ idx = EmptyEnv.idx
  /\ pc = "returned"
  /\ pos = 0
  /\ InitRest
  /\ InitAux
  /\ decls = [v \in BVars |-> NoDecl]
  /\ bopts = NoOptions
  /\ bindHist = NoBind

NextSort ==
  \/ OldFlatzincStart
  \/ OldFlatzincItem
  \/ OldFlatzincFinish

SpecSort == InitSort /\ [][NextSort]_vars

\* The place of an item's kind in a FlatZinc model
KindRank(i) ==
  CASE i.kind = "FUN" -> 0
    [] i.kind = "VD" -> 1
    [] i.kind = "CON" -> 2
    [] i.kind = "SOL" -> 3

\* C14: after oldflatzinc every function declaration of the flat model
\* precedes every variable declaration, every variable declaration precedes
\* every constraint, and every constraint precedes the solve item
C14_ItemsOrderedByKind ==
  pc = "done" =>
    \A i \in 1..Len(flat), j \in 1..Len(flat) :
      i < j => KindRank(flat[i]) <= KindRank(flat[j])

\* oldflatzinc ended on a model of all four kinds whose function
\* declaration was added behind the solve item
C14_Witness ==
  /\ pc = "done"
  /\ Len(flat) > msize
  /\ {flat[k].kind : k \in 1..Len(flat)} = {"FUN", "VD", "CON", "SOL"}

-----------------------------------------------------------------------------
(* Properties of the defines_var annotations after oldflatzinc              *)

MaxDefItems == 3

\* The arguments a definition of v may have: the other variables, in any
\* order
DefArgs(v) ==
  {a \in UNION {[1..n -> DVars \ {v}] : n \in 1..2} :
     \A i \in 1..Len(a), j \in 1..Len(a) : i # j => a[i] # a[j]}

DefItems ==
  UNION {{DeclItem(v, a) : a \in DefArgs(v)} : v \in DVars} \cup
  UNION {{ConsItem(v, a \o <<v>>) : a \in DefArgs(v)} : v \in DVars}

\* The flat models oldflatzinc may find: every variable is declared once, and
\* is annotated is_defined_var exactly if a constraint defines it
InitDv ==
  /\ InitIdle
  /\ IdleLin /\ IdleReif /\ IdlePar /\ IdleScope /\ IdleCs /\ IdleEv /\ IdleMore
  /\ \E n \in 0..MaxDefItems, keep \in BOOLEAN :
       \E f \in [1..n -> DefItems] :
         /\ \A i \in 1..n, j \in 1..n :
              (i # j /\ f[i].kind = "VD" /\ f[j].kind = "VD") => f[i].id # f[j].id
         /\ dv = [NoDv EXCEPT
                    !.flat = f,
                    !.is_defined_var =
                      [v \in DVars |-> \E i \in 1..n : f[i].kind = "CON" /\ f[i].def = v],
                    !.keepDefinesVar = keep,
                    !.stage = "flat"]

NextDv ==
  \/ DvCleanup
  \/ DvBreakCycles

SpecDv == InitDv /\ [][NextDv]_vars

\* The variables among the arguments of the constraint annotated
\* defines_var(v), v itself left out
DefinesEdges(f, v) ==
  {w \in DVars \ {v} :
     \E k \in 1..Len(f) :
       /\ f[k].kind = "CON"
       /\ f[k].def = v
       /\ \E a \in 1..Len(f[k].args) : f[k].args[a] = w}

\* The variables that have a constraint annotated defines_var
Defined(f) == {v \in DVars : \E k \in 1..Len(f) : f[k].kind = "CON" /\ f[k].def = v}

RECURSIVE DefinesReach(_, _, _)
DefinesReach(f, R, n) ==
  IF n = 0 THEN R
  ELSE DefinesReach(f, R \cup UNION {DefinesEdges(f, w) \cap Defined(f) : w \in R}, n - 1)

HasDefinesCycle(f) ==
  \E v \in Defined(f) :
    v \in DefinesReach(f, DefinesEdges(f, v) \cap Defined(f), Cardinality(DVars))

\* C15: after oldflatzinc there is no chain of two or more distinct
\* variables in which the constraint annotated defines_var of each has the
\* next variable among its arguments and that of the last has the first
C15_NoDefinesVarCycle ==
  dv.stage = "done" => ~HasDefinesCycle(dv.flat)

\* The cycles through constraints that carried their annotation into
\* oldflatzinc are broken
C15_RecordedCyclesBroken ==
  dv.stage = "done" =>
    ~HasDefinesCycle(SubSeq(dv.flat, 1, dv.msize))

-----------------------------------------------------------------------------
(* Properties of flatten_par                                                *)

\* The calls of flatten_par: a boolean scalar evaluates to true or false, any
\* other expression to a value, or the evaluation is undefined; only a
\* boolean scalar is flattened into varTrue or in a negated context
InitPar ==
  /\ InitIdle
  /\ IdleLin /\ IdleReif /\ IdleDv /\ IdleScope /\ IdleCs /\ IdleEv /\ IdleMore
  /\ \E bt \in {"bool", "int"}, dim \in 0..1, cv \in BOOLEAN,
        out \in {"true", "false", "value", "undefined"},
        cb \in {"ROOT", "MIX"}, neg \in BOOLEAN,
        r \in {"nullptr", "varTrue", "var"}, b \in {"nullptr", "varTrue", "var"} :
       LET isbool == bt = "bool" /\ dim = 0 IN
       /\ out \in (IF isbool THEN {"true", "false", "undefined"} ELSE {"value", "undefined"})
       /\ r = "varTrue" => isbool
       /\ neg => isbool
       /\ par = [NoPar EXCEPT !.bt = bt, !.dim = dim, !.cv = cv, !.out = out,
                              !.ctx = [b |-> cb, neg |-> neg], !.r = r, !.b = b,
                              !.stage = "call"]

NextPar == FlattenPar

SpecPar == InitPar /\ [][NextPar]_vars

ParLeft == par.stage \in {"returned", "escaped"}

-----------------------------------------------------------------------------
(* Properties of flatten_let                                                *)

MaxLetItems == 3

\* The lets flatten_let may be given: each declaration is mapped to nothing
\* or to the variable of an earlier flattening; a constraint has no mapping
InitScope ==
  /\ InitIdle
  /\ IdleLin /\ IdleReif /\ IdleDv /\ IdlePar /\ IdleCs /\ IdleEv /\ IdleMore
  /\ \E n \in 1..MaxLetItems, cb \in {"ROOT", "POS", "MIX"}, pt \in BOOLEAN :
       \E its \in [1..n -> {"vd_rhs", "vd_free", "con"}],
          fl \in [1..n -> {"nullptr", "outer", "none"}],
          t \in 0..(n + 1),
          x \in {"none", "ResultUndefinedError", "FlatteningError"} :
         /\ \A i \in 1..n : (its[i] = "con") <=> (fl[i] = "none")
         /\ (t = 0) <=> (x = "none")
         /\ t \in 1..n => its[t] # "vd_free"
         /\ scope = [NoScope EXCEPT !.items = its, !.ctx_b = cb, !.promise_total = pt,
                                    !.flat = fl, !.before = fl,
                                    !.throwAt = t, !.exc = x, !.stage = "call"]

NextScope ==
  \/ FlattenLet
  \/ FlatCvExpRecovers

SpecScope == InitScope /\ [][NextScope]_vars

\* C18: whenever control leaves the flattening of a let, by a normal return
\* or by an exception a caller recovers from, every declaration of the let
\* has the flat() mapping it had before the let was entered
C18_FlatMappingRestored ==
  scope.stage \in {"returned", "recovered"} => scope.flat = scope.before

\* The mapping is restored on a normal return
C18_RestoredOnReturn ==
  scope.stage = "returned" => scope.flat = scope.before

-----------------------------------------------------------------------------
(* Properties of the call stack                                             *)

\* The post-pass is about to post a call; the declaration and the call have
\* or have not a path annotation
InitCs ==
  /\ InitIdle
  /\ IdleLin /\ IdleReif /\ IdleDv /\ IdlePar /\ IdleScope /\ IdleEv /\ IdleMore
  /\ \E v \in BOOLEAN, c \in BOOLEAN :
       cs = [NoCs EXCEPT !.vsl = v, !.csl = c, !.stage = "postpass"]

NextCs ==
  \/ CsPostCall
  \/ CsEnter
  \/ CsLeave
  \/ CsRaise
  \/ CsPosted

SpecCs == InitCs /\ [][NextCs]_vars

CsCounters(S) ==
  [callStack |-> S.callStack, idStack |-> S.idStack,
   inRedundantConstraint |-> S.inRedundantConstraint,
   inSymmetryBreakingConstraint |-> S.inSymmetryBreakingConstraint,
   inMaybePartial |-> S.inMaybePartial]

\* C19: when a cancellation or any other exception has unwound the pipeline,
\* the call stack, the id stack and the redundant, symmetry-breaking and
\* maybe-partial counters have the values they had before the outermost
\* unwound frame was pushed
C19_FramesPoppedOnUnwind ==
  cs.stage = "unwound" => CsCounters(cs) = CsCounters(NoCs)

\* The frames of the local CallStackItems are popped and their counters
\* restored; the stack is as it was when posting ended normally
C19_LocalFramesPopped ==
  /\ cs.stage = "unwound" =>
       /\ \A k \in 1..Len(cs.callStack) : cs.callStack[k].heap
       /\ [CsCounters(cs) EXCEPT !.callStack = <<>>] = CsCounters(NoCs)
  /\ cs.stage = "posted" => CsCounters(cs) = CsCounters(NoCs)

-----------------------------------------------------------------------------
(* Properties of eval_par                                                   *)

MaxExprDepth == 2

Atoms ==
  {IntLit(0), IntLit(1), BoolLit(0), BoolLit(1),
   Id("int", <<>>), IdFixed("int", 1), IdFixed("bool", 0), AnnId}

OfType(S, ty) == {e \in S : e.ty = ty}

\* The expressions with one operator over the expressions S
Composites(S) ==
  {Id(r.ty, <<r>>) : r \in OfType(S, "int") \cup OfType(S, "bool")}
    \cup {BinOp(l, r) : l \in OfType(S, "int"), r \in OfType(S, "int")}
    \cup UNION {{ITE(ty, c, t, e) : c \in OfType(S, "bool"),
                                   t \in OfType(S, ty), e \in OfType(S, ty)} :
                  ty \in {"int", "ann"}}
    \cup {Call("ann", d, <<x>>) : d \in {"nodecl", "nobody"}, x \in S \ OfType(S, "array")}
    \cup {Call(x.ty, "body", <<x>>) : x \in S \ OfType(S, "array")}
    \cup UNION {{ArrayLitOf(<<x>>) : x \in OfType(S, ty)} \cup
                {ArrayLitOf(<<x, y>>) : x \in OfType(S, ty), y \in OfType(S, ty)} :
                  ty \in {"int", "bool", "ann"}}

\* One more operator around the expressions S
Wrapped(S) ==
  {Id(r.ty, <<r>>) : r \in OfType(S, "int") \cup OfType(S, "bool")}
    \cup {BinOp(l, IntLit(1)) : l \in OfType(S, "int")}
    \cup {Call("ann", "nodecl", <<x>>) : x \in S \ OfType(S, "array")}
    \cup {Call(x.ty, "body", <<x>>) : x \in S \ OfType(S, "array")}
    \cup {ArrayLitOf(<<x>>) : x \in S \ OfType(S, "array")}

RECURSIVE ExprsAt(_)
ExprsAt(n) ==
  IF n = 0 THEN Atoms
  ELSE IF n = 1 THEN Atoms \cup Composites(Atoms)
  ELSE ExprsAt(n - 1) \cup Wrapped(ExprsAt(n - 1))

InitEv ==
  /\ InitIdle
  /\ IdleLin /\ IdleReif /\ IdleDv /\ IdlePar /\ IdleScope /\ IdleCs /\ IdleMore
  /\ \E e \in ExprsAt(MaxExprDepth) : ev = [NoEv EXCEPT !.e = e, !.stage = "given"]

NextEv ==
  \/ EvalPar
  \/ EvalParAgain

SpecEv == InitEv /\ [][NextEv]_vars

RECURSIVE IsLiteral(_)
IsLiteral(v) ==
  \/ v.k \in {"IntLit", "BoolLit"}
  \/ v.k = "ArrayLit" /\ \A i \in 1..Len(v.a) : IsLiteral(v.a[i])

\* An expression of type int or bool, or an array of them, in which every
\* identifier has a value
RECURSIVE HasValue(_)
HasValue(e) ==
  /\ e.ty # "ann"
  /\ e.k = "Id" => (e.d = "fixed" \/ e.a # <<>>)
  /\ \A i \in 1..Len(e.a) : HasValue(e.a[i])

-----------------------------------------------------------------------------
(* Comprehensions: eval_comp visits every combination once *)

DeclCounts == {1, 2}
SetIns == {Gen(n, "set", [i \in 1..s |-> i]) : n \in DeclCounts, s \in 0..MaxGenSize}
ArrayIns == {Gen(1, "array", [i \in 1..MaxGenSize |-> 1])}
DependentIns == {Gen(1, "upto", <<>>)}
GenSeqs ==
  UNION {[1..m -> SetIns \cup ArrayIns \cup DependentIns] : m \in 1..MaxGens}

InitComp ==
  /\ InitIdle
  /\ IdleLin /\ IdleReif /\ IdleDv /\ IdlePar /\ IdleScope /\ IdleCs /\ IdleEv
  /\ IdleTup /\ IdleBnd /\ IdleJson /\ IdleCtxann /\ IdleDump
  /\ \E gs \in GenSeqs, w \in {"none", "first_is_1", "false"} :
       /\ gs[1].kind # "upto"
       /\ comp = [NoComp EXCEPT !.gens = gs, !.where = w, !.stage = "called"]

NextComp == EvalComp \/ EvalCompIterate \/ EvalCompLoopEnd

SpecComp == InitComp /\ [][NextComp]_vars

\* eval_comp runs to its end: the loops are not interrupted
FairSpecComp == SpecComp /\ WF_vars(NextComp)

\* The generator every identifier belongs to, in the order of declaration
RECURSIVE slotGens(_, _)
slotGens(gens, g) ==
  IF g > Len(gens) THEN <<>>
  ELSE [i \in 1..gens[g].n |-> g] \o slotGens(gens, g + 1)

\* The combinations of generator positions of a comprehension
AllCombos(C) ==
  LET sg == slotGens(C.gens, 1)
      first(p) == IF p[1] > Len(C.gens[1].vals) THEN 0 ELSE C.gens[1].vals[p[1]]
      sizeAt(p, s) ==
        IF C.gens[sg[s]].kind = "upto" THEN first(p) ELSE Len(C.gens[sg[s]].vals)
  IN {p \in [1..Len(sg) -> 1..MaxGenSize] : \A s \in 1..Len(sg) : p[s] <= sizeAt(p, s)}

\* The product of the generator sizes, one factor for every identifier
RECURSIVE SizeProduct(_, _)
SizeProduct(gens, g) ==
  IF g > Len(gens) THEN 1
  ELSE (IF gens[g].n = 1 THEN Len(gens[g].vals) ELSE Len(gens[g].vals) * Len(gens[g].vals))
       * SizeProduct(gens, g + 1)

Independent(C) == \A g \in 1..Len(C.gens) : C.gens[g].kind # "upto"

CompReturned == comp.stage = "returned"

\* C21: the evaluation of a finite comprehension over par sets and arrays
\* terminates; no combination of generator positions is visited twice, the
\* body is evaluated at most once for every visit, and on return every
\* combination has been visited, which for generators that do not depend
\* on each other is the product of the generator sizes
C21_EvalCompTerminatesInProduct ==
  /\ <>CompReturned
  /\ [](comp.stage \in {"running", "returned"} =>
          /\ comp.steps = Cardinality(comp.visited)
          /\ comp.a <= comp.steps)
  /\ [](CompReturned =>
          /\ comp.visited = AllCombos(comp)
          /\ (Independent(comp) => comp.steps = SizeProduct(comp.gens, 1)))

C21_Witness ==
  /\ CompReturned
  /\ Len(comp.gens) = 2
  /\ comp.gens[1].n = 2 /\ comp.gens[1].kind = "set"
  /\ comp.gens[2].kind = "upto"
  /\ comp.where = "first_is_1"
  /\ comp.steps = 6 /\ comp.a = 2

-----------------------------------------------------------------------------
(* Tuples: membership of a tuple in a collection of tuples *)

TupleFields == {1, 2}
Tuples == [1..2 -> TupleFields]
TupleSeqs == UNION {[1..n -> Tuples] : n \in 0..MaxTuples}

InitTup ==
  /\ InitIdle
  /\ IdleLin /\ IdleReif /\ IdleDv /\ IdlePar /\ IdleScope /\ IdleCs /\ IdleEv
  /\ IdleComp /\ IdleBnd /\ IdleJson /\ IdleCtxann /\ IdleDump
  /\ \E t \in Tuples, S \in TupleSeqs :
       tup = [NoTup EXCEPT !.t = t, !.S = S, !.stage = "called"]

NextTup == EvalTupleIn

SpecTup == InitTup /\ [][NextTup]_vars

\* C22: `t in S` evaluates to true exactly when some element of S, at any
\* position, is elementwise equal to t
C22_TupleInIffMember ==
  tup.stage = "returned" =>
    (tup.r <=> \E i \in 1..Len(tup.S) : tup.S[i] = tup.t)

\* What the code computes: t is compared with the first element of S only
C22_TupleInComparesFirst ==
  tup.stage = "returned" =>
    (tup.r <=> (tup.S # <<>> /\ tup.S[1] = tup.t))

-----------------------------------------------------------------------------
(* Bounds: the interval a bounds visitor reports for an operator *)

BndValues == (0 - MaxBnd)..MaxBnd
BndPairs == UNION {{Bounds(l, u) : u \in l..MaxBnd} : l \in BndValues}

InitBnd ==
  /\ InitIdle
  /\ IdleLin /\ IdleReif /\ IdleDv /\ IdlePar /\ IdleScope /\ IdleCs /\ IdleEv
  /\ IdleComp /\ IdleTup /\ IdleJson /\ IdleCtxann /\ IdleDump
  /\ \/ \E op \in BinOps \cup {"BOT_POW"}, b0 \in BndPairs \cup {Unbounded}, b1 \in BndPairs :
          bnd = [NoBnd EXCEPT !.visitor = "int", !.op = op, !.b0 = b0, !.b1 = b1,
                              !.stage = "called"]
     \/ \E v \in {"int", "float"}, op \in UnOps, b0 \in BndPairs :
          bnd = [NoBnd EXCEPT !.visitor = v, !.op = op, !.b0 = b0, !.stage = "called"]

NextBnd == ComputeIntBoundsBinOp \/ ComputeIntBoundsUnOp \/ ComputeFloatBoundsUnOp

SpecBnd == InitBnd /\ [][NextBnd]_vars

\* The values the operator of bnd takes when its arguments range over
\* their bounds (div and mod are undefined for the divisor 0)
OpValues ==
  IF bnd.op \in UnOps
    THEN {(IF bnd.op = "UOT_MINUS" THEN -x ELSE x) : x \in bnd.b0.l..bnd.b0.u}
    ELSE {(CASE bnd.op = "BOT_PLUS" -> p[1] + p[2]
             [] bnd.op = "BOT_MINUS" -> p[1] - p[2]
             [] bnd.op = "BOT_MULT" -> p[1] * p[2]
             [] bnd.op = "BOT_IDIV" -> IntDiv(p[1], p[2])
             [] OTHER -> IntMod(p[1], p[2])) :
            p \in {q \in (bnd.b0.l..bnd.b0.u) \X (bnd.b1.l..bnd.b1.u) :
                     bnd.op \in {"BOT_IDIV", "BOT_MOD"} => q[2] # 0}}

BndValid == bnd.stage = "returned" /\ bnd.out.valid

\* C23: whenever a bounds visitor reports valid, the interval [l,u] it
\* returns satisfies l <= u and contains every value the expression takes
\* when its sub-expressions range over their own bounds
C23_BoundsSound ==
  BndValid =>
    /\ bnd.out.l <= bnd.out.u
    /\ \A v \in OpValues : bnd.out.l <= v /\ v <= bnd.out.u

\* The operators for which the reported interval is sound: +, - and * of
\* ComputeIntBounds and its unary operators, and unary plus of
\* ComputeFloatBounds
C23_SoundOperators ==
  (BndValid /\ bnd.op \notin {"BOT_IDIV", "BOT_MOD"}
            /\ ~(bnd.visitor = "float" /\ bnd.op = "UOT_MINUS")) =>
    /\ bnd.out.l <= bnd.out.u
    /\ \A v \in OpValues : bnd.out.l <= v /\ v <= bnd.out.u

\* Integer div misses a value although l <= u
C23_DivMissesValue ==
  ~(/\ BndValid /\ bnd.op = "BOT_IDIV" /\ bnd.out.l <= bnd.out.u
    /\ \E v \in OpValues : v > bnd.out.u)

\* Float unary minus returns l > u
C23_FloatMinusOrdered ==
  (BndValid /\ bnd.visitor = "float" /\ bnd.op = "UOT_MINUS") => bnd.out.l <= bnd.out.u

-----------------------------------------------------------------------------
(* JSON: the index sets of a coerced array *)

JsonRanges == {ElidedRange} \cup {GivenRange(1, c) : c \in 1..MaxCard}
JsonShapes ==
  {<<0>>} \cup UNION {[1..d -> 1..MaxCard] : d \in 1..MaxRanges}

InitJson ==
  /\ InitIdle
  /\ IdleLin /\ IdleReif /\ IdleDv /\ IdlePar /\ IdleScope /\ IdleCs /\ IdleEv
  /\ IdleComp /\ IdleTup /\ IdleBnd /\ IdleCtxann /\ IdleDump
  /\ \E rs \in UNION {[1..n -> JsonRanges] : n \in 1..MaxRanges}, sh \in JsonShapes :
       json = [NoJson EXCEPT !.ranges = rs, !.shape = sh, !.stage = "called"]

NextJson == CoerceArray

SpecJson == InitJson /\ [][NextJson]_vars

\* The number of elements of the array: those of the first dim levels when
\* the JSON array is nested and the declaration has dim > 1 ranges
JsonElements ==
  IF Len(json.ranges) > 1 /\ Len(json.shape) > 1
    THEN levelProduct(json.shape, Len(json.ranges))
    ELSE json.shape[1]

RECURSIVE CardProduct(_, _)
CardProduct(ranges, i) ==
  IF i = 0 THEN 1
  ELSE (IF ranges[i].null THEN 1 ELSE card(ranges[i])) * CardProduct(ranges, i - 1)

JsonElided == {i \in 1..Len(json.ranges) : json.ranges[i].null}

\* C24: when coerceArray builds the arrayNd call, at most one range of the
\* declaration is elided; the given ranges are passed on, and the elided
\* one is 1..(number of elements divided by the product of the
\* cardinalities of the given ranges). With more than one elided range no
\* call is built
C24_ElidedRangeFromSize ==
  json.stage = "returned" =>
    /\ json.out.kind = "call" =>
         /\ Cardinality(JsonElided) <= 1
         /\ json.out.size = JsonElements
         /\ \A i \in 1..Len(json.ranges) :
              json.out.args[i] =
                IF i \in JsonElided
                  THEN GivenRange(1, JsonElements \div CardProduct(json.ranges, Len(json.ranges)))
                  ELSE json.ranges[i]
    /\ Cardinality(JsonElided) > 1 => json.out.kind # "call"

C24_Witness ==
  /\ json.stage = "returned"
  /\ json.out.kind = "call"
  /\ Len(json.ranges) = 2
  /\ json.ranges[1].null /\ card(json.ranges[2]) = 2
  /\ json.shape = <<2, 2>>
  /\ json.out.args[1] = GivenRange(1, 2)

-----------------------------------------------------------------------------
(* Domain constraints that are bound into varTrue *)

LinLeCoeffs == {-2, 2}
CallVars == {"x"}
DomainCalls ==
  {IntLeCall(side, v, c) : side \in {"ge", "le"}, v \in CallVars, c \in 1..MaxVal}
  \cup {call \in {IntLinLeCall(v, a, y) : v \in CallVars, a \in LinLeCoeffs,
                                          y \in (0 - 2 * MaxVal)..(2 * MaxVal)} :
          linLeBound(call.coeff, call.c) \in 1..MaxVal}

BindTrue == \E call \in DomainCalls : BindTrueCall(call)

NextCdc == BindTrue

SpecCdc == InitBind /\ [][NextCdc]_vars

\* check_domain_constraints has turned the call into a bound on the domain
TurnedIntoBound ==
  /\ bindHist.op = "check_domain_constraints"
  /\ decls[bindHist.call.v].dom # bindHist.priorDom

\* C25: whenever check_domain_constraints has turned an int_le between a
\* par value and a variable (in either argument order) or a single-variable
\* int_lin_le into a bound on the variable's domain, it returns false, and
\* the constraint is not posted as well
C25_AbsorbedNotRequired ==
  TurnedIntoBound => (~bindHist.ret /\ flat = bindHist.priorFlat)

\* The argument orders for which this holds: int_le(par, id) and int_lin_le
C25_AbsorbedGeAndLin ==
  (TurnedIntoBound /\ bindHist.call.side # "le") =>
    (~bindHist.ret /\ flat = bindHist.priorFlat)

-----------------------------------------------------------------------------
(* Aliases: declarations with an Id RHS in the FlatZinc order *)

\* The declarations 1..n; alias[k] is the declaration that k is equal to
\* (0: no Id RHS)
AliasDecl(k, a, r, d) ==
  [VarDeclI("int", k) EXCEPT !.alias = a, !.rhs = IF a # 0 THEN "id" ELSE r, !.dim = d]

\* No declaration is an alias of itself, directly or through other aliases
RECURSIVE AliasPath(_, _, _)
AliasPath(al, k, n) ==
  IF n = 0 \/ al[k] = 0 THEN {} ELSE {al[k]} \cup AliasPath(al, al[k], n - 1)

Acyclic(al) == \A k \in DOMAIN al : k \notin AliasPath(al, k, Len(al))

InitAlias ==
  /\ \E n \in 1..MaxAliasItems :
       \E al \in [1..n -> 0..n], r \in [1..n -> {"none", "call"}], d \in 0..1 :
         /\ Acyclic(al)
         /\ flat = [k \in 1..n |-> AliasDecl(k, al[k], r[k], d)]
  /\ output = EmptyEnv.output
  /\ failed = EmptyEnv.failed
  /\ warnings = EmptyEnv.warnings
  /\ idx = EmptyEnv.idx
  /\ pc = "returned"
  /\ pos = 0
  /\ InitRest
  /\ InitAux
  /\ decls = [v \in BVars |-> NoDecl]
  /\ bopts = NoOptions
  /\ bindHist = NoBind

NextAlias ==
  \/ OldFlatzincStart
  \/ OldFlatzincItem
  \/ OldFlatzincFinish

SpecAlias == InitAlias /\ [][NextAlias]_vars

\* The place of the declaration with identifier a in the flat model (0: none)
PlaceOf(a) == declIndex(flat, a)

\* C26: after oldflatzinc, every declaration whose RHS is an identifier
\* stands behind the declaration of that identifier, for alias chains of any
\* length
C26_DeclaredBeforeUse ==
  pc = "done" =>
    \A k \in 1..Len(flat) :
      (flat[k].kind = "VD" /\ flat[k].rhs = "id" /\ PlaceOf(flat[k].alias) # 0) =>
        PlaceOf(flat[k].alias) < k

C26_Witness ==
  /\ pc = "done"
  /\ Len(flat) = 3
  /\ flat[1].id = 3 /\ flat[1].rhs = "call"
  /\ flat[2].id = 2 /\ flat[2].alias = 3
  /\ flat[3].id = 1 /\ flat[3].alias = 2

-----------------------------------------------------------------------------
(* fail() and flatAddItem() on an environment that has failed *)

NextFail == FailCall \/ FlatAddItemCall

SpecFail == Init /\ [][NextFail]_vars

\* C27: a fail() call on an environment that has already failed changes
\* neither the flat model, the output model nor the warning buffer and
\* raises nothing, and flatAddItem on a failed environment leaves the flat
\* model unchanged
C27_FailIdempotent ==
  /\ (hist.lastCall = "fail" /\ hist.priorFailed) =>
       /\ <<flat, output, warnings>> = hist.prior
       /\ hist.thrown = "none"
       /\ failed
  /\ (hist.lastCall = "flatAddItem" /\ hist.priorFailed) =>
       /\ flat = hist.prior[1]
       /\ failed

\* fail() was called again after a failure that found items, and
\* flatAddItem was turned away before
C27_Witness ==
  /\ hist.lastCall = "fail" /\ hist.priorFailed
  /\ hist.addedOnFailed
  /\ Len(flat) >= 4
  /\ Len(warnings) = 1

-----------------------------------------------------------------------------
(* Context annotations: the join of the contexts passed to add_ctx_ann *)

InitCtxann ==
  /\ InitIdle
  /\ IdleLin /\ IdleReif /\ IdleDv /\ IdlePar /\ IdleScope /\ IdleCs /\ IdleEv
  /\ IdleComp /\ IdleTup /\ IdleBnd /\ IdleJson /\ IdleDump
  /\ \E other \in SUBSET {"is_defined_var"} :
       ctxann = [NoCtxann EXCEPT !.ann = other, !.stage = "declared"]

NextCtxann == AddCtxAnn

SpecCtxann == InitCtxann /\ [][NextCtxann]_vars

\* The join of a set of contexts: root with anything is root, pos with neg
\* is mix, mix with pos or neg is mix
CtxJoin(ctxs) ==
  IF "C_ROOT" \in ctxs THEN "C_ROOT"
  ELSE IF "C_MIX" \in ctxs \/ {"C_POS", "C_NEG"} \subseteq ctxs THEN "C_MIX"
  ELSE IF "C_POS" \in ctxs THEN "C_POS"
  ELSE "C_NEG"

\* C28: after any sequence of add_ctx_ann calls on a declaration that had
\* no context annotation, the declaration carries exactly one context
\* annotation, the join of the contexts passed so far, whatever the order
\* of the calls
C28_ContextIsJoin ==
  ctxann.calls # <<>> =>
    ctxann.ann \cap BCtxs =
      {CtxJoin({ctxann.calls[i] : i \in 1..Len(ctxann.calls)})}

C28_Witness ==
  /\ ctxann.calls = <<"C_POS", "C_NEG", "C_ROOT">>
  /\ ctxann.ann = {"C_ROOT", "is_defined_var"}

-----------------------------------------------------------------------------
(* Warnings written by dumpWarnings *)

InitDump ==
  /\ InitIdle
  /\ IdleLin /\ IdleReif /\ IdleDv /\ IdlePar /\ IdleScope /\ IdleCs /\ IdleEv
  /\ IdleComp /\ IdleTup /\ IdleBnd /\ IdleJson /\ IdleCtxann
  /\ \E n \in 0..MaxDumpWarnings, x \in -1..MaxDumpWarnings,
        werror \in BOOLEAN, js \in BOOLEAN :
       dump = [NoDump EXCEPT !.warnings = [k \in 1..n |-> k], !.werror = werror,
                             !.json = js, !.exceptWarning = x, !.stage = "called"]

NextDump == DumpWarnings

SpecDump == InitDump /\ [][NextDump]_vars

\* The warnings written, in the order in which they were written
WrittenWarnings ==
  LET ws == SelectSeq(dump.os, LAMBDA t : t # Newline)
  IN [i \in 1..Len(ws) |-> ws[i].w]

\* C29: dumpWarnings writes every stored warning except the one at index
\* exceptWarning, those before and those after it, in buffer order
C29_AllButExceptWritten ==
  dump.stage = "returned" =>
    WrittenWarnings = SelectSeq(dump.warnings, LAMBDA k : k - 1 # dump.exceptWarning)

\* What the code writes: the warnings before index exceptWarning
C29_WrittenUpToExcept ==
  dump.stage = "returned" =>
    WrittenWarnings =
      SelectSeq(dump.warnings,
                LAMBDA k : dump.exceptWarning < 0 \/ k - 1 < dump.exceptWarning)

-----------------------------------------------------------------------------
(* The solve item of the flat model *)

\* The solve items of the flat model that are not marked removed
SolveItems == {k \in 1..Len(flat) : flat[k].kind = "SOL" /\ ~flat[k].removed}

\* C30: after flatten() has returned normally the flat model contains
\* exactly one solve item that is not marked removed: the source model's,
\* the `solve satisfy` added for a model without one, or the `solve satisfy`
\* that fail() appended
C30_ExactlyOneSolveItem ==
  (pc = "returned" /\ exc = "none") => Cardinality(SolveItems) = 1

\* flatten() returned from a model with a solve item that failed after the
\* solve item had been flattened
C30_Witness ==
  /\ pc = "returned" /\ exc = "none"
  /\ failed /\ hadSolveItem
  /\ \E k \in 1..Len(flat) : flat[k].kind = "SOL" /\ flat[k].removed
  /\ flat[Len(flat)] = SolveSat

====
